---- MODULE Spec2Model ----
(***************************************************************************)
(* kokoro-tui: the synthesis worker (KokoroAgent), the playback worker     *)
(* (SoundAgent) and the orchestration layer (KokoroApp) that routes        *)
(* synthesis output into playback.                                         *)
(*                                                                         *)
(* Time.  time.time() is a float number of seconds.  The model counts     *)
(* wall-clock time in ticks of 1/(TicksPerSample*SAMPLE_RATE) seconds, so  *)
(* that int(x * SAMPLE_RATE) for a duration of t ticks is t/TicksPerSample *)
(* truncated toward zero, and durations that are not a whole number of     *)
(* samples exist.                                                          *)
(*                                                                         *)
(* Device.  player._queue is modelled as the flat sequence of samples      *)
(* queued on the device and not yet consumed; the device consumes it from  *)
(* the head concurrently with the worker (action DeviceDrain).             *)
(***************************************************************************)
EXTENDS Integers, Sequences, FiniteSets, TLC

\* ---------------------------------------------------------------- bounds
MaxTime == 2            \* wall-clock ticks the model lets pass
MaxQueue == 1           \* commands a caller lets wait in a worker's input queue
MaxChunks == 3          \* audio chunks produced (by the engine, or by a direct caller of feed)
TicksPerSample == 2     \* clock resolution: ticks per audio sample
MaxPastes == 2          \* texts pasted into the app (new or append)
MaxClears == 1          \* clear_history calls made on the app
MaxObjects == 3         \* Config objects created (constructor, set_config, get_config)

\* ---------------------------------------------------------------- values
None == -1              \* Python's None for start_timestamp (timestamps are >= 0)

\* Token(text_index_start, text_index_end, start_index, end_index)
Token(ts, te, s, e) ==
    [text_index_start |-> ts, text_index_end |-> te, start_index |-> s, end_index |-> e]

\* Token.offset: shift the sample span by audio_offset
offset(token, audio_offset) ==
    [token EXCEPT !.start_index = @ + audio_offset, !.end_index = @ + audio_offset]

\* Audio(data, tokens)
Audio(d, toks) == [data |-> d, tokens |-> toks]

\* concat with the samples concatenated first, so that the tokens of other
\* are shifted by the length after concatenation
concat_shifts_by_new_length(self, other) ==
    [tokens |-> self.tokens \o [k \in 1..Len(other.tokens) |->
                                   offset(other.tokens[k], Len(self.data \o other.data))],
     data   |-> self.data \o other.data]

\* concat that extends the tokens without Token.offset
concat_without_offset(self, other) ==
    [tokens |-> self.tokens \o other.tokens,
     data   |-> self.data \o other.data]

\* Audio.concat: the tokens of other are shifted by len(self.data) as it is
\* BEFORE the samples are concatenated, then the samples are concatenated.
concat(self, other) ==
    [tokens |-> self.tokens \o [k \in 1..Len(other.tokens) |->
                                   offset(other.tokens[k], Len(self.data))],
     data   |-> self.data \o other.data]

\* int(x): truncation toward zero of num/den (den > 0)
int(num, den) == IF num >= 0 THEN num \div den ELSE -((-num) \div den)

\* int(t * SAMPLE_RATE) for a duration of t ticks
Samples(t) == int(t, TicksPerSample)

\* ---------------------------------------------------------------- inputs of the playback worker
DataInput(chunk, index, overwrite) ==
    [kind |-> "DataInput", chunk |-> chunk, index |-> index, overwrite |-> overwrite]
ChangeTrack(index) == [kind |-> "ChangeTrack", index |-> index]
SeekSecs(secs) == [kind |-> "SeekSecs", secs |-> secs]
ClearHistory == [kind |-> "ClearHistory"]
Save(path) == [kind |-> "Save", path |-> path]
\* sound.Output(error); error None is the string "None"
SoundOutput(error) == [error |-> error]
\* the paths a caller saves to, and whether soundfile.write succeeds on them
SavePaths == {"out.wav", "missing_dir/out.wav"}
Writable(path) == path = "out.wav"

\* The k-th audio chunk produced: one sample, numbered k so that order and
\* origin stay visible after concatenation, and one token spanning it (token
\* sample spans are chunk-local, text spans follow the chunk number).
ChunkOf(k) == Audio(<<k>>, <<Token(10 * k, 10 * k + 9, 0, 1)>>)
IndexArgs == 0..1
\* seek_secs arguments, in ticks: one sample back, one sample forward
SeekArgs == {-TicksPerSample, TicksPerSample}

VARIABLES
    \* SoundAgent (lib/agents/sound.py)
    input_queue,          \* SoundAgent.input_queue
    agent,                \* SoundAgent's worker-private fields
    text_indices,         \* SoundAgent.text_indices (shared, lock protected)
    is_playing,           \* SoundAgent._is_playing (Event)
    stop_event,           \* SoundAgent._stop_event (Event)
    player,               \* the device: [open, queue]
    pc,                   \* where the playback worker is in _run/_run_inner
    sound_output_queue,   \* SoundAgent.output_queue
    last_yielded,         \* get_text_indices: the generator's last_yielded
    text_lock,            \* text_indices.get_lock(): its holder, and where the worker
                          \* (write) and get_text_indices (read) are in their with blocks
    \* KokoroAgent (lib/agents/kokoro.py)
    kokoro_input_queue,   \* KokoroAgent.input_queue
    output_queue,         \* KokoroAgent.output_queue
    cancel_event,         \* KokoroAgent._cancel_event
    is_processing_event,  \* KokoroAgent._is_processing_event
    kokoro_stop_event,    \* KokoroAgent._stop_event
    kokoro_pc,            \* where the synthesis worker is in _run
    request,              \* the DataInput being generated: [input, first_chunk], and
                          \* emitted, the number of chunks put for it so far
    configs,              \* the Config objects that exist, by object identity
    _config,              \* KokoroAgent._config: the identity of the stored Config
    pipeline,             \* what KokoroAgent._pipeline was built with
    held,                 \* the Config objects the caller holds a reference to
    delivered,            \* the Outputs a consumer of get_outputs has kept, in order
    cancelled,            \* at the caller's latest cancel(): the number of feed calls
                          \* and of chunks produced before it
    \* KokoroApp (main.py)
    index,                \* KokoroApp.index
    texts,                \* KokoroApp.texts
    generation,           \* KokoroApp.generation
    \* environment and bookkeeping
    now,                  \* time.time(), in ticks
    nchunks,              \* audio chunks produced so far
    npastes,              \* texts pasted so far
    clears,               \* clear_history calls made on the app so far
    issued_in,            \* for each synthesis request waiting, for the one being
                          \* generated and for each chunk produced: the value of
                          \* clears when the app issued the request
    last                  \* the last step taken, with the state it started from

soundVars == <<input_queue, agent, text_indices, is_playing, stop_event, player, pc,
               sound_output_queue, last_yielded, text_lock>>
configVars == <<configs, _config, pipeline, held>>
kokoroVars == <<kokoro_input_queue, output_queue, cancel_event, is_processing_event,
                kokoro_stop_event, kokoro_pc, request, issued_in, configVars, delivered,
                cancelled>>
appVars == <<index, texts, generation, npastes, clears>>
vars == <<soundVars, kokoroVars, appVars, now, nchunks, last>>

\* ---------------------------------------------------------------- SoundAgent helpers
\* self._data[self._track_index] with Python's list indexing: a negative
\* index counts from the end, an index outside [-len, len) raises IndexError.
IndexOk(a) == /\ a._track_index < Len(a._data)
              /\ -a._track_index <= Len(a._data)

\* SoundAgent._get_data (only used where IndexOk holds)
_get_data(a) ==
    IF a._track_index >= 0 THEN a._data[a._track_index + 1].data
    ELSE a._data[Len(a._data) + a._track_index + 1].data

\* the outcome of a piece of worker code: the fields it leaves, the device
\* it leaves, and whether it raised (an exception nobody catches)
Outcome(a, p, raised) == [agent |-> a, player |-> p, raised |-> raised]

\* SoundAgent._current_index
_current_index(a, t) ==
    IF a._start_timestamp = None THEN a._start_index
    ELSE a._start_index + Samples(t - a._start_timestamp)

\* SoundAgent._should_play (the _is_playing Event is passed in)
_should_play(a, playing) ==
    /\ a._track_index >= 0
    /\ a._start_index < Len(_get_data(a))
    /\ playing

\* SoundAgent._seek_and_play(start_index, player, clear) at time t;
\* p.open = FALSE is "player is None"
_seek_and_play(a, p, start_index, clear, t) ==
    LET a1 == [a EXCEPT !._start_index = IF start_index < 0 THEN 0 ELSE start_index]
    IN  IF ~IndexOk(a1) THEN Outcome(a1, p, TRUE)
        ELSE LET n == Len(_get_data(a1)) IN
             IF a1._start_index >= n
             THEN Outcome([a1 EXCEPT !._start_index = n], p, FALSE)
             ELSE IF p.open
             THEN Outcome([a1 EXCEPT !._start_timestamp = t],
                          [p EXCEPT !.queue = (IF clear THEN <<>> ELSE @)
                                       \o SubSeq(_get_data(a1), a1._start_index + 1, n)],
                          FALSE)
             ELSE Outcome(a1, p, FALSE)

\* DataInput.apply with the overwrite flag ignored: an existing track is
\* always appended to
DataInput_apply_ignores_overwrite(in, a, p, t) ==
    LET n == Len(a._data) IN
    IF n <= in.index
    THEN _seek_and_play([a EXCEPT !._data = Append(@, in.chunk), !._track_index = n],
                        p, 0, TRUE, t)
    ELSE Outcome([a EXCEPT !._data[in.index + 1] = concat(@, in.chunk)],
                 IF p.open THEN [p EXCEPT !.queue = @ \o in.chunk.data] ELSE p,
                 FALSE)

\* DataInput.apply selecting the requested index, not the position the new
\* track was appended at
DataInput_apply_selects_index(in, a, p, t) ==
    LET n == Len(a._data) IN
    IF n <= in.index
    THEN _seek_and_play([a EXCEPT !._data = Append(@, in.chunk),
                                  !._track_index = in.index],
                        p, 0, TRUE, t)
    ELSE IF in.overwrite
    THEN _seek_and_play([a EXCEPT !._data[in.index + 1] = in.chunk], p, 0, TRUE, t)
    ELSE Outcome([a EXCEPT !._data[in.index + 1] = concat(@, in.chunk)],
                 IF p.open THEN [p EXCEPT !.queue = @ \o in.chunk.data] ELSE p,
                 FALSE)

\* DataInput.apply restarting playback from 0 on an append as well
DataInput_apply_restarts_on_append(in, a, p, t) ==
    LET n == Len(a._data) IN
    IF n <= in.index
    THEN _seek_and_play([a EXCEPT !._data = Append(@, in.chunk), !._track_index = n],
                        p, 0, TRUE, t)
    ELSE IF in.overwrite
    THEN _seek_and_play([a EXCEPT !._data[in.index + 1] = in.chunk], p, 0, TRUE, t)
    ELSE _seek_and_play([a EXCEPT !._data[in.index + 1] = concat(@, in.chunk)],
                        p, 0, TRUE, t)

\* DataInput.apply
DataInput_apply(in, a, p, t) ==
    LET n == Len(a._data) IN
    IF n <= in.index
    THEN _seek_and_play([a EXCEPT !._data = Append(@, in.chunk), !._track_index = n],
                        p, 0, TRUE, t)
    ELSE IF in.overwrite
    THEN _seek_and_play([a EXCEPT !._data[in.index + 1] = in.chunk], p, 0, TRUE, t)
    ELSE Outcome([a EXCEPT !._data[in.index + 1] = concat(@, in.chunk)],
                 IF p.open THEN [p EXCEPT !.queue = @ \o in.chunk.data] ELSE p,
                 FALSE)

\* ChangeTrack.apply that does not clear the device queue
ChangeTrack_apply_without_flush(in, a, p, t) ==
    _seek_and_play([a EXCEPT !._track_index =
                        IF Len(a._data) <= in.index THEN Len(a._data) - 1 ELSE in.index],
                   p, 0, FALSE, t)

\* ChangeTrack.apply
ChangeTrack_apply(in, a, p, t) ==
    _seek_and_play([a EXCEPT !._track_index =
                        IF Len(a._data) <= in.index THEN Len(a._data) - 1 ELSE in.index],
                   p, 0, TRUE, t)

\* SeekSecs.apply; the assert on player fails (raises) when a timestamp is
\* present without an open device
SeekSecs_apply(in, a, p, t) ==
    IF a._track_index < 0 THEN Outcome(a, p, FALSE)
    ELSE IF a._start_timestamp = None
    THEN _seek_and_play(a, p, Samples(in.secs) + a._start_index, TRUE, t)
    ELSE IF ~p.open THEN Outcome(a, p, TRUE)
    ELSE _seek_and_play(a, p, Samples(t - a._start_timestamp + in.secs) + a._start_index,
                        TRUE, t)

\* ClearHistory.apply leaving the start timestamp in place
ClearHistory_apply_keeps_timestamp(in, a, p, t) ==
    Outcome([a EXCEPT !._data = <<>>, !._start_index = 0, !._track_index = -1],
            p, FALSE)

\* ClearHistory.apply leaving the position where it was
ClearHistory_apply_keeps_position(in, a, p, t) ==
    Outcome([a EXCEPT !._data = <<>>, !._start_timestamp = None, !._track_index = -1],
            p, FALSE)

\* ClearHistory.apply
ClearHistory_apply(in, a, p, t) ==
    Outcome([a EXCEPT !._data = <<>>, !._start_index = 0, !._start_timestamp = None,
                      !._track_index = -1],
            p, FALSE)

\* a Save.apply that reports nothing when the write fails
Save_put_swallows_error(in, a) ==
    IF a._track_index < 0 \/ ~IndexOk(a) \/ ~Writable(in.path) THEN <<>>
    ELSE <<SoundOutput("None")>>

\* Save.apply, what it puts on output_queue: nothing without a track, else
\* one Output, with the exception caught when _get_data or the write raises
Save_put(in, a) ==
    IF a._track_index < 0 THEN <<>>
    ELSE IF ~IndexOk(a) THEN <<SoundOutput("IndexError")>>
    ELSE IF ~Writable(in.path) THEN <<SoundOutput("LibsndfileError")>>
    ELSE <<SoundOutput("None")>>

\* Save.apply, what it does to the worker: nothing, and it never raises
Save_apply(in, a, p, t) == Outcome(a, p, FALSE)

\* what input.apply puts on output_queue
put(in, a) == IF in.kind = "Save" THEN Save_put(in, a) ELSE <<>>

\* input.apply(self, player): dispatch on the command
apply(in, a, p, t) ==
    CASE in.kind = "DataInput"    -> DataInput_apply(in, a, p, t)
      [] in.kind = "ChangeTrack"  -> ChangeTrack_apply(in, a, p, t)
      [] in.kind = "SeekSecs"     -> SeekSecs_apply(in, a, p, t)
      [] in.kind = "ClearHistory" -> ClearHistory_apply(in, a, p, t)
      [] in.kind = "Save"         -> Save_apply(in, a, p, t)

NoRange == [start |-> -1, end |-> -1]
\* what get_text_indices yields: Python's None is the empty tuple here, a
\* range is the pair (start, end)
NoYield == <<>>

\* the worker is not in a with block of the lock; otherwise: the stage it
\* is at, the range it writes, and where it goes on afterwards
NoWrite == [stage |-> "none", range |-> NoRange, then |-> "idle"]
\* get_text_indices is not in its with block; otherwise: the stage it is at
\* and the start it has read
NoRead == [stage |-> "none", start |-> -1]

\* the index (0-based, relative to _token_index) of the first token from
\* _token_index on whose [start_index, end_index] contains position, or -1
FirstMatch(tokens, from, position) ==
    LET hits == {i \in 0..(Len(tokens) - from - 1) :
                    /\ tokens[from + i + 1].start_index <= position
                    /\ tokens[from + i + 1].end_index >= position}
    IN  IF hits = {} THEN -1 ELSE CHOOSE i \in hits : \A j \in hits : i <= j

\* SoundAgent._update_text_indices / _reset_text_indices: the new
\* (_token_index, text_indices) at time t
_update_text_indices(a, t) ==
    LET tokens == a._data[a._track_index + 1].tokens
        i == FirstMatch(tokens, a._token_index, _current_index(a, t))
    IN  IF i < 0 THEN [token_index |-> 0, range |-> NoRange]
        ELSE [token_index |-> a._token_index + i,
              range |-> [start |-> tokens[a._token_index + i + 1].text_index_start,
                         end   |-> tokens[a._token_index + i + 1].text_index_end]]

\* ---------------------------------------------------------------- inputs and outputs of the synthesis worker
\* kokoro.DataInput as main.py builds it (text, index, generation, overwrite)
KokoroDataInput(text, i, g, overwrite) ==
    [text |-> text, index |-> i, generation |-> g, overwrite |-> overwrite]
\* kokoro.Output(audio, index, generation, overwrite)
Output(audio, i, g, overwrite) ==
    [audio |-> audio, index |-> i, generation |-> g, overwrite |-> overwrite]

NoRequest == [input |-> KokoroDataInput(<<>>, -1, -1, FALSE), first_chunk |-> FALSE,
              emitted |-> 0]

\* kokoro.Config.  A voice is <<language letter, rest of the name>>, so that
\* voice[0] is its first element; device None is the string "None".
Config(voice, speed, split_pattern, trf, device) ==
    [voice |-> voice, speed |-> speed, split_pattern |-> split_pattern,
     trf |-> trf, device |-> device]
\* Config(): the defaults
DefaultConfig == Config(<<"a", "f_heart">>, "1.3", "\\n", FALSE, "None")
\* the values a caller gives a Config: the defaults, another voice of the
\* same language, a voice of another language, the transformer switched on,
\* another device, another speed
ConfigChoices ==
    {DefaultConfig,
     [DefaultConfig EXCEPT !.voice = <<"a", "m_adam">>],
     [DefaultConfig EXCEPT !.voice = <<"b", "f_emma">>],
     [DefaultConfig EXCEPT !.trf = TRUE],
     [DefaultConfig EXCEPT !.device = "cuda"],
     [DefaultConfig EXCEPT !.speed = "1.0"]}
\* Config.lang_code
lang_code(c) == c.voice[1]
\* Config.compare_pipeline
compare_pipeline(self, other) ==
    /\ lang_code(self) = lang_code(other)
    /\ self.trf = other.trf
    /\ self.device = other.device
\* KPipeline(lang_code=, trf=, device=, model=): what the pipeline is built with
KPipeline(c) == [lang_code |-> lang_code(c), trf |-> c.trf, device |-> c.device]
\* kokoro.UpdateConfig(config); config is the identity of a Config object
UpdateConfig(c) == [config |-> c]
IsUpdateConfig(in) == "config" \in DOMAIN in

\* ---------------------------------------------------------------- initial state
\* SoundAgent.__init__
SoundInit ==
    /\ input_queue = <<>>
    /\ agent = [_data |-> <<>>, _track_index |-> -1, _start_index |-> 0,
                _start_timestamp |-> None, _token_index |-> 0]
    /\ text_indices = NoRange
    /\ is_playing = TRUE
    /\ stop_event = FALSE
    /\ player = [open |-> FALSE, queue |-> <<>>]
    /\ pc = "idle"
    /\ sound_output_queue = <<>>
    /\ last_yielded = NoYield
    /\ text_lock = [holder |-> "free", write |-> NoWrite, read |-> NoRead]

\* KokoroAgent.__init__
KokoroInit ==
    /\ kokoro_input_queue = <<>>
    /\ output_queue = <<>>
    /\ cancel_event = FALSE
    /\ is_processing_event = FALSE
    /\ kokoro_stop_event = FALSE
    /\ kokoro_pc = "wait"
    /\ request = NoRequest
    /\ issued_in = [queue |-> <<>>, request |-> 0, chunk |-> <<>>]
    /\ configs = <<DefaultConfig>>
    /\ _config = 1
    /\ pipeline = KPipeline(DefaultConfig)
    /\ held = {1}
    /\ delivered = <<>>
    /\ cancelled = [requests |-> 0, chunks |-> 0]

\* KokoroApp.__init__
AppInit ==
    /\ index = -1
    /\ texts = <<>>
    /\ generation = 0
    /\ npastes = 0
    /\ clears = 0

Init ==
    /\ SoundInit /\ KokoroInit /\ AppInit
    /\ now = 0
    /\ nchunks = 0
    /\ last = [op |-> "init"]

\* what the playback worker leaves in last when it applies a command: the
\* command and the state it was applied in
Applied(in) == [op |-> "apply", input |-> in, agent |-> agent, player |-> player,
                output_queue |-> sound_output_queue]

\* ---------------------------------------------------------------- the public API of SoundAgent
\* SoundAgent.feed
feed(chunk, i, overwrite) ==
    input_queue' = Append(input_queue, DataInput(chunk, i, overwrite))
\* SoundAgent.change_track
change_track(i) == input_queue' = Append(input_queue, ChangeTrack(i))
\* SoundAgent.seek_secs
seek_secs(secs) == input_queue' = Append(input_queue, SeekSecs(secs))
\* SoundAgent.clear_history
clear_history == input_queue' = Append(input_queue, ClearHistory)
\* SoundAgent.save
save(path) == input_queue' = Append(input_queue, Save(path))
\* SoundAgent.pause
pause == is_playing' = FALSE
\* SoundAgent.play
play == is_playing' = TRUE
\* a toggle_pp that always pauses
toggle_pp_always_pauses == is_playing' = FALSE
\* SoundAgent.toggle_pp
toggle_pp == is_playing' = ~is_playing
\* SoundAgent.stop
stop == stop_event' = TRUE /\ is_playing' = FALSE

\* what the playback worker and its shared state are when a transport call
\* is made, and whether the call before it was the same call
Called(op, twice) ==
    [op |-> op, is_playing |-> is_playing, agent |-> agent, input_queue |-> input_queue,
     text_indices |-> text_indices, player |-> player, pc |-> pc, twice |-> twice]

\* ---------------------------------------------------------------- a direct caller of SoundAgent
\* any command with any argument, until the caller calls stop().  The app's
\* transport keys are such calls: KokoroApp.action_toggle_pp is toggle_pp(),
\* action_seek_left and action_seek_right are seek_secs(-5) and seek_secs(5);
\* the model's tracks are a few samples long and its seek step is one sample.
CallFeed ==
    /\ ~stop_event /\ Len(input_queue) < MaxQueue /\ nchunks < MaxChunks
    /\ \E i \in IndexArgs, overwrite \in BOOLEAN :
          /\ feed(ChunkOf(nchunks + 1), i, overwrite)
          /\ last' = [op |-> "feed", index |-> i, overwrite |-> overwrite]
    /\ nchunks' = nchunks + 1
    /\ UNCHANGED <<last_yielded, text_lock, agent, text_indices, is_playing, stop_event, sound_output_queue, player, pc,
                   kokoroVars, appVars, now>>

CallChangeTrack ==
    /\ ~stop_event /\ Len(input_queue) < MaxQueue
    /\ \E i \in IndexArgs : change_track(i)
    /\ last' = [op |-> "change_track"]
    /\ UNCHANGED <<last_yielded, text_lock, agent, text_indices, is_playing, stop_event, sound_output_queue, player, pc,
                   kokoroVars, appVars, now, nchunks>>

CallSeekSecs ==
    /\ ~stop_event /\ Len(input_queue) < MaxQueue
    /\ \E secs \in SeekArgs : seek_secs(secs)
    /\ last' = [op |-> "seek_secs"]
    /\ UNCHANGED <<last_yielded, text_lock, agent, text_indices, is_playing, stop_event, sound_output_queue, player, pc,
                   kokoroVars, appVars, now, nchunks>>

CallClearHistory ==
    /\ ~stop_event /\ Len(input_queue) < MaxQueue
    /\ clear_history
    /\ last' = [op |-> "clear_history"]
    /\ UNCHANGED <<last_yielded, text_lock, agent, text_indices, is_playing, stop_event, sound_output_queue, player, pc,
                   kokoroVars, appVars, now, nchunks>>

CallTogglePP ==
    /\ ~stop_event
    /\ toggle_pp
    /\ last' = Called("toggle_pp", FALSE)
    /\ UNCHANGED <<last_yielded, text_lock, input_queue, agent, text_indices, stop_event, sound_output_queue, player, pc,
                   kokoroVars, appVars, now, nchunks>>

CallStop ==
    /\ ~stop_event
    /\ stop
    /\ last' = [op |-> "stop"]
    /\ UNCHANGED <<last_yielded, text_lock, input_queue, agent, text_indices, player, pc, sound_output_queue,
                   kokoroVars, appVars, now, nchunks>>

\* ---------------------------------------------------------------- the playback worker
\* _run, stop observed: the loop ends
RunExit ==
    /\ pc = "idle" /\ stop_event
    /\ pc' = "done"
    /\ last' = [op |-> "RunExit"]
    /\ UNCHANGED <<last_yielded, text_lock, input_queue, agent, text_indices, is_playing, stop_event, sound_output_queue, player,
                   kokoroVars, appVars, now, nchunks>>

\* _run, else branch: _process_input() with no player.  An empty queue is a
\* sleep that changes nothing.
IdleInput ==
    /\ pc = "idle" /\ ~stop_event /\ ~_should_play(agent, is_playing)
    /\ input_queue # <<>>
    /\ LET r == apply(Head(input_queue), agent, player, now) IN
          /\ agent' = r.agent
          /\ player' = r.player
          /\ pc' = IF r.raised THEN "crashed" ELSE "idle"
    /\ input_queue' = Tail(input_queue)
    /\ sound_output_queue' = sound_output_queue \o put(Head(input_queue), agent)
    /\ last' = Applied(Head(input_queue))
    /\ UNCHANGED <<last_yielded, text_lock, text_indices, is_playing, stop_event, kokoroVars, appVars, now, nchunks>>

\* _run without the test of _should_play before _run_inner
OpenDevice_without_test ==
    /\ pc = "idle" /\ ~stop_event /\ IndexOk(agent) /\ agent._data # <<>>
    /\ LET r == _seek_and_play(agent, [open |-> TRUE, queue |-> <<>>],
                               agent._start_index, FALSE, now) IN
          /\ agent' = r.agent
          /\ player' = r.player
    /\ pc' = "scan"
    /\ last' = [op |-> "OpenDevice", position |-> agent._start_index]
    /\ UNCHANGED <<last_yielded, text_lock, input_queue, text_indices, is_playing, stop_event, sound_output_queue,
                   kokoroVars, appVars, now, nchunks>>

\* _run -> _run_inner: the device is opened and playback established from
\* _start_index without clearing
OpenDevice ==
    /\ pc = "idle" /\ ~stop_event /\ _should_play(agent, is_playing)
    /\ LET r == _seek_and_play(agent, [open |-> TRUE, queue |-> <<>>],
                               agent._start_index, FALSE, now) IN
          /\ agent' = r.agent
          /\ player' = r.player
    /\ pc' = "scan"
    /\ last' = [op |-> "OpenDevice", position |-> agent._start_index]
    /\ UNCHANGED <<last_yielded, text_lock, input_queue, text_indices, is_playing, stop_event, sound_output_queue,
                   kokoroVars, appVars, now, nchunks>>

\* the play loop left without storing _current_index as the position
Scan_keeps_start_index ==
    /\ pc = "scan"
    /\ IF _should_play(agent, is_playing)
       THEN IF agent._start_timestamp = None
            THEN /\ pc' = "crashed"
                 /\ UNCHANGED <<agent, text_indices, player>>
            ELSE LET u == _update_text_indices(agent, now) IN
                 /\ agent' = [agent EXCEPT !._token_index = u.token_index]
                 /\ text_indices' = u.range
                 /\ pc' = "poll"
                 /\ UNCHANGED player
       ELSE /\ agent' = [agent EXCEPT !._start_timestamp = None]
            /\ player' = [open |-> FALSE, queue |-> <<>>]
            /\ pc' = "idle"
            /\ UNCHANGED text_indices
    /\ last' = IF _should_play(agent, is_playing) /\ agent._start_timestamp # None
               THEN [op |-> "_update_text_indices", token_index |-> agent._token_index]
               ELSE [op |-> "Scan", position |-> _current_index(agent, now)]
    /\ UNCHANGED <<last_yielded, text_lock, input_queue, is_playing, stop_event, sound_output_queue, kokoroVars, appVars, now, nchunks>>

\* _run_inner, the while test and _update_text_indices; when _should_play
\* fails the loop is left: the position is frozen at _current_index and the
\* device closed
Scan ==
    /\ pc = "scan"
    /\ IF _should_play(agent, is_playing)
       THEN IF agent._start_timestamp = None
            THEN /\ pc' = "crashed"
                 /\ UNCHANGED <<agent, text_indices, player>>
            ELSE LET u == _update_text_indices(agent, now) IN
                 /\ agent' = [agent EXCEPT !._token_index = u.token_index]
                 /\ text_indices' = u.range
                 /\ pc' = "poll"
                 /\ UNCHANGED player
       ELSE /\ agent' = [agent EXCEPT !._start_index = _current_index(agent, now),
                                      !._start_timestamp = None]
            /\ player' = [open |-> FALSE, queue |-> <<>>]
            /\ pc' = "idle"
            /\ UNCHANGED text_indices
    /\ last' = IF _should_play(agent, is_playing) /\ agent._start_timestamp # None
               THEN [op |-> "_update_text_indices", token_index |-> agent._token_index]
               ELSE [op |-> "Scan", position |-> _current_index(agent, now)]
    /\ UNCHANGED <<last_yielded, text_lock, input_queue, is_playing, stop_event, sound_output_queue, kokoroVars, appVars, now, nchunks>>

\* _run_inner: _process_input(player, FAST_SLEEP_TIME)
Poll ==
    /\ pc = "poll"
    /\ IF input_queue = <<>>
       THEN /\ pc' = "check"
            /\ last' = [op |-> "sleep"]
            /\ UNCHANGED <<input_queue, agent, player, sound_output_queue>>
       ELSE LET r == apply(Head(input_queue), agent, player, now) IN
            /\ agent' = r.agent
            /\ player' = r.player
            /\ pc' = IF r.raised THEN "crashed" ELSE "check"
            /\ input_queue' = Tail(input_queue)
            /\ sound_output_queue' = sound_output_queue \o put(Head(input_queue), agent)
            /\ last' = Applied(Head(input_queue))
    /\ UNCHANGED <<last_yielded, text_lock, text_indices, is_playing, stop_event, kokoroVars, appVars, now, nchunks>>

\* the exhaustion branch without _reset_text_indices
Check_keeps_highlight ==
    /\ pc = "check"
    /\ IF player.queue # <<>>
       THEN /\ pc' = "scan"
            /\ UNCHANGED <<agent, text_indices, player>>
       ELSE IF agent._start_timestamp = None \/ ~IndexOk(agent)
       THEN /\ pc' = "crashed"
            /\ UNCHANGED <<agent, text_indices, player>>
       ELSE /\ agent' = [agent EXCEPT !._start_index = Len(_get_data(agent)),
                                      !._start_timestamp = None]
            /\ UNCHANGED text_indices
            /\ player' = [open |-> FALSE, queue |-> <<>>]
            /\ pc' = "idle"
    /\ last' = [op |-> "Check"]
    /\ UNCHANGED <<last_yielded, text_lock, input_queue, is_playing, stop_event, sound_output_queue, kokoroVars, appVars, now, nchunks>>

\* _run_inner: if not player._queue: the track is exhausted
Check ==
    /\ pc = "check"
    /\ IF player.queue # <<>>
       THEN /\ pc' = "scan"
            /\ UNCHANGED <<agent, text_indices, player>>
       ELSE IF agent._start_timestamp = None \/ ~IndexOk(agent)
       THEN /\ pc' = "crashed"
            /\ UNCHANGED <<agent, text_indices, player>>
       ELSE /\ agent' = [agent EXCEPT !._start_index = Len(_get_data(agent)),
                                      !._start_timestamp = None,
                                      !._token_index = 0]
            /\ text_indices' = NoRange
            /\ player' = [open |-> FALSE, queue |-> <<>>]
            /\ pc' = "idle"
    /\ last' = [op |-> "Check"]
    /\ UNCHANGED <<last_yielded, text_lock, input_queue, is_playing, stop_event, sound_output_queue, kokoroVars, appVars, now, nchunks>>

\* ---------------------------------------------------------------- the device and the clock
\* the device consumes the sample at the head of its queue
DeviceDrain ==
    /\ player.open /\ player.queue # <<>>
    /\ player' = [player EXCEPT !.queue = Tail(@)]
    /\ last' = [op |-> "DeviceDrain"]
    /\ UNCHANGED <<last_yielded, text_lock, input_queue, agent, text_indices, is_playing, stop_event, sound_output_queue, pc,
                   kokoroVars, appVars, now, nchunks>>

\* the wall clock advances.  The worker reads the clock only relative to
\* _start_timestamp, so time that passes while no timestamp is held is not
\* observable and is not modelled.
Tick ==
    /\ now < MaxTime /\ agent._start_timestamp # None
    /\ now' = now + 1
    /\ last' = [op |-> "Tick"]
    /\ UNCHANGED <<soundVars, kokoroVars, appVars, nchunks>>

SoundNext ==
    \/ CallFeed \/ CallChangeTrack \/ CallSeekSecs \/ CallClearHistory
    \/ CallTogglePP \/ CallStop
    \/ RunExit \/ IdleInput \/ OpenDevice \/ Scan \/ Poll \/ Check
    \/ DeviceDrain \/ Tick

\* the playback worker driven through its public API by an arbitrary caller
SoundSpec == Init /\ [][SoundNext]_vars

\* the playback worker's process is scheduled: each step of _run and
\* _run_inner that can be taken is eventually taken
SoundFair ==
    /\ WF_vars(RunExit) /\ WF_vars(IdleInput) /\ WF_vars(OpenDevice)
    /\ WF_vars(Scan) /\ WF_vars(Poll) /\ WF_vars(Check)

SoundLiveSpec == SoundSpec /\ SoundFair

\* ---------------------------------------------------------------- pause and play
CallPause ==
    /\ ~stop_event
    /\ pause
    /\ last' = Called("pause", last.op = "pause")
    /\ UNCHANGED <<last_yielded, text_lock, input_queue, agent, text_indices, stop_event, sound_output_queue,
                   player, pc, kokoroVars, appVars, now, nchunks>>

CallPlay ==
    /\ ~stop_event
    /\ play
    /\ last' = Called("play", last.op = "play")
    /\ UNCHANGED <<last_yielded, text_lock, input_queue, agent, text_indices, stop_event, sound_output_queue,
                   player, pc, kokoroVars, appVars, now, nchunks>>

PlayNext ==
    \/ CallFeed \/ CallSeekSecs \/ CallPause \/ CallPlay \/ CallTogglePP \/ CallStop
    \/ RunExit \/ IdleInput \/ OpenDevice \/ Scan \/ Poll \/ Check
    \/ DeviceDrain \/ Tick

\* the playback worker with a caller that feeds, seeks, pauses, plays and
\* toggles
PlaySpec == Init /\ [][PlayNext]_vars

ResumeNext ==
    \/ CallFeed \/ CallPause \/ CallPlay \/ CallTogglePP \/ CallStop
    \/ RunExit \/ IdleInput \/ OpenDevice \/ Scan \/ Poll \/ Check
    \/ DeviceDrain \/ Tick

\* the playback worker with a caller that feeds chunks and pauses and
\* resumes, and sends no seek, track change or clear
ResumeSpec == Init /\ [][ResumeNext]_vars

\* ---------------------------------------------------------------- the highlight stream
\* the stream with the test against last_yielded left out
get_text_indices_yields_every_read ==
    /\ ~stop_event
    /\ LET ret == IF text_indices.start >= 0 /\ text_indices.end >= 0
                  THEN <<text_indices.start, text_indices.end>>
                  ELSE NoYield
       IN  /\ last_yielded' = ret
           /\ last' = [op |-> "yield", value |-> ret, previous |-> last_yielded,
                       text_indices |-> text_indices]
    /\ UNCHANGED <<text_lock, input_queue, agent, text_indices, is_playing, stop_event, player, pc,
                   sound_output_queue, kokoroVars, appVars, now, nchunks>>

\* get_text_indices, one turn of its loop that yields: the shared range is
\* read under its lock, turned into a pair or None, and yielded when it
\* differs from last_yielded.  A turn that does not yield changes nothing.
get_text_indices ==
    /\ ~stop_event
    /\ LET ret == IF text_indices.start >= 0 /\ text_indices.end >= 0
                  THEN <<text_indices.start, text_indices.end>>
                  ELSE NoYield
       IN  /\ ret # last_yielded
           /\ last_yielded' = ret
           /\ last' = [op |-> "yield", value |-> ret, previous |-> last_yielded,
                       text_indices |-> text_indices]
    /\ UNCHANGED <<text_lock, input_queue, agent, text_indices, is_playing, stop_event, player, pc,
                   sound_output_queue, kokoroVars, appVars, now, nchunks>>

TextNext == SoundNext \/ get_text_indices

\* the playback worker with a consumer of the highlight stream
TextSpec == Init /\ [][TextNext]_vars

\* ---------------------------------------------------------------- the highlight under its lock
\* The same worker and reader with each with block of
\* text_indices.get_lock() taken apart: the lock is acquired, start is
\* stored or read, end is stored or read and the lock released.
\* _run_inner, the while test and _update_text_indices up to its with block
ScanWrite ==
    /\ pc = "scan"
    /\ IF _should_play(agent, is_playing)
       THEN IF agent._start_timestamp = None
            THEN /\ pc' = "crashed"
                 /\ UNCHANGED <<agent, text_lock, player>>
            ELSE LET u == _update_text_indices(agent, now) IN
                 /\ agent' = [agent EXCEPT !._token_index = u.token_index]
                 /\ text_lock' = [text_lock EXCEPT !.write =
                        [stage |-> "acquire", range |-> u.range, then |-> "poll"]]
                 /\ pc' = "write"
                 /\ UNCHANGED player
       ELSE /\ agent' = [agent EXCEPT !._start_index = _current_index(agent, now),
                                      !._start_timestamp = None]
            /\ player' = [open |-> FALSE, queue |-> <<>>]
            /\ pc' = "idle"
            /\ UNCHANGED text_lock
    /\ last' = IF _should_play(agent, is_playing) /\ agent._start_timestamp # None
               THEN [op |-> "_update_text_indices", token_index |-> agent._token_index]
               ELSE [op |-> "Scan", position |-> _current_index(agent, now)]
    /\ UNCHANGED <<last_yielded, text_indices, input_queue, is_playing, stop_event,
                   sound_output_queue, kokoroVars, appVars, now, nchunks>>

\* _run_inner, the exhaustion branch up to the with block of
\* _reset_text_indices
CheckWrite ==
    /\ pc = "check"
    /\ IF player.queue # <<>>
       THEN /\ pc' = "scan"
            /\ UNCHANGED <<agent, text_lock, player>>
       ELSE IF agent._start_timestamp = None \/ ~IndexOk(agent)
       THEN /\ pc' = "crashed"
            /\ UNCHANGED <<agent, text_lock, player>>
       ELSE /\ agent' = [agent EXCEPT !._start_index = Len(_get_data(agent)),
                                      !._start_timestamp = None,
                                      !._token_index = 0]
            /\ text_lock' = [text_lock EXCEPT !.write =
                   [stage |-> "acquire", range |-> NoRange, then |-> "idle"]]
            /\ player' = [open |-> FALSE, queue |-> <<>>]
            /\ pc' = "write"
    /\ last' = [op |-> "Check"]
    /\ UNCHANGED <<last_yielded, text_indices, input_queue, is_playing, stop_event,
                   sound_output_queue, kokoroVars, appVars, now, nchunks>>

\* with self.text_indices.get_lock(): the worker waits for the lock
WriteAcquire ==
    /\ pc = "write" /\ text_lock.write.stage = "acquire"
    /\ text_lock.holder = "free"
    /\ text_lock' = [text_lock EXCEPT !.holder = "worker", !.write.stage = "start"]
    /\ last' = [op |-> "WriteAcquire"]
    /\ UNCHANGED <<last_yielded, input_queue, agent, text_indices, is_playing, stop_event,
                   player, pc, sound_output_queue, kokoroVars, appVars, now, nchunks>>

\* self.text_indices.start = ...
WriteStart ==
    /\ pc = "write" /\ text_lock.write.stage = "start"
    /\ text_indices' = [text_indices EXCEPT !.start = text_lock.write.range.start]
    /\ text_lock' = [text_lock EXCEPT !.write.stage = "end"]
    /\ last' = [op |-> "WriteStart"]
    /\ UNCHANGED <<last_yielded, input_queue, agent, is_playing, stop_event,
                   player, pc, sound_output_queue, kokoroVars, appVars, now, nchunks>>

\* self.text_indices.end = ..., and the with block is left
WriteEnd ==
    /\ pc = "write" /\ text_lock.write.stage = "end"
    /\ text_indices' = [text_indices EXCEPT !.end = text_lock.write.range.end]
    /\ text_lock' = [text_lock EXCEPT
                        !.holder = IF @ = "worker" THEN "free" ELSE @,
                        !.write = NoWrite]
    /\ pc' = text_lock.write.then
    /\ last' = [op |-> "WriteEnd"]
    /\ UNCHANGED <<last_yielded, input_queue, agent, is_playing, stop_event,
                   player, sound_output_queue, kokoroVars, appVars, now, nchunks>>

\* get_text_indices entering its with block without acquiring the lock
ReadAcquire_without_lock ==
    /\ ~stop_event /\ text_lock.read.stage = "none"
    /\ text_lock' = [text_lock EXCEPT !.read.stage = "start"]
    /\ last' = [op |-> "ReadAcquire"]
    /\ UNCHANGED <<last_yielded, input_queue, agent, text_indices, is_playing, stop_event,
                   player, pc, sound_output_queue, kokoroVars, appVars, now, nchunks>>

\* get_text_indices: with self.text_indices.get_lock()
ReadAcquire ==
    /\ ~stop_event /\ text_lock.read.stage = "none"
    /\ text_lock.holder = "free"
    /\ text_lock' = [text_lock EXCEPT !.holder = "reader", !.read.stage = "start"]
    /\ last' = [op |-> "ReadAcquire"]
    /\ UNCHANGED <<last_yielded, input_queue, agent, text_indices, is_playing, stop_event,
                   player, pc, sound_output_queue, kokoroVars, appVars, now, nchunks>>

\* start = self.text_indices.start
ReadStart ==
    /\ text_lock.read.stage = "start"
    /\ text_lock' = [text_lock EXCEPT !.read = [stage |-> "end",
                                                start |-> text_indices.start]]
    /\ last' = [op |-> "ReadStart"]
    /\ UNCHANGED <<last_yielded, input_queue, agent, text_indices, is_playing, stop_event,
                   player, pc, sound_output_queue, kokoroVars, appVars, now, nchunks>>

\* end = self.text_indices.end, the with block is left, and the pair is
\* yielded when it differs from last_yielded
ReadEnd ==
    /\ text_lock.read.stage = "end"
    /\ text_lock' = [text_lock EXCEPT
                        !.holder = IF @ = "reader" THEN "free" ELSE @,
                        !.read = NoRead]
    /\ LET ret == IF text_lock.read.start >= 0 /\ text_indices.end >= 0
                  THEN <<text_lock.read.start, text_indices.end>>
                  ELSE NoYield
       IN  IF ret # last_yielded
           THEN /\ last_yielded' = ret
                /\ last' = [op |-> "yield", value |-> ret, previous |-> last_yielded,
                            text_indices |-> text_indices]
           ELSE /\ last' = [op |-> "ReadEnd"]
                /\ UNCHANGED last_yielded
    /\ UNCHANGED <<input_queue, agent, text_indices, is_playing, stop_event,
                   player, pc, sound_output_queue, kokoroVars, appVars, now, nchunks>>

LockNext ==
    \/ CallFeed \/ CallChangeTrack \/ CallSeekSecs \/ CallStop
    \/ RunExit \/ IdleInput \/ OpenDevice \/ ScanWrite \/ Poll \/ CheckWrite
    \/ WriteAcquire \/ WriteStart \/ WriteEnd
    \/ ReadAcquire \/ ReadStart \/ ReadEnd
    \/ DeviceDrain \/ Tick

\* the playback worker writing the highlight and get_text_indices reading
\* it, field by field, with a caller that feeds, seeks and changes track
LockSpec == Init /\ [][LockNext]_vars

\* ---------------------------------------------------------------- saving the active track
\* save(path) for any path, by a caller that takes the result of one save
\* before it asks for another (KokoroApp.save_audio awaits get_output after
\* its save)
CallSave ==
    /\ ~stop_event /\ Len(input_queue) < MaxQueue
    /\ Len(sound_output_queue) < MaxQueue
    /\ \E path \in SavePaths : save(path)
    /\ last' = [op |-> "save"]
    /\ UNCHANGED <<last_yielded, text_lock, agent, text_indices, is_playing, stop_event, sound_output_queue, player, pc,
                   kokoroVars, appVars, now, nchunks>>

\* get_output(): the caller takes one Output from the result channel
CallGetOutput ==
    /\ ~stop_event /\ sound_output_queue # <<>>
    /\ sound_output_queue' = Tail(sound_output_queue)
    /\ last' = [op |-> "get_output"]
    /\ UNCHANGED <<last_yielded, text_lock, input_queue, agent, text_indices, is_playing, stop_event, player, pc,
                   kokoroVars, appVars, now, nchunks>>

SaveNext ==
    \/ CallFeed \/ CallClearHistory \/ CallSave \/ CallGetOutput \/ CallStop
    \/ RunExit \/ IdleInput \/ OpenDevice \/ Scan \/ Poll \/ Check
    \/ DeviceDrain \/ Tick

\* the playback worker with a caller that feeds, clears, saves and takes the
\* results
SaveSpec == Init /\ [][SaveNext]_vars

\* ---------------------------------------------------------------- the public API of KokoroAgent
\* KokoroAgent.feed
kokoro_feed(text, i, g, overwrite) ==
    kokoro_input_queue' = Append(kokoro_input_queue, KokoroDataInput(text, i, g, overwrite))
\* KokoroAgent.cancel
cancel == cancel_event' = TRUE
\* KokoroAgent.stop
kokoro_stop == cancel_event' = TRUE /\ kokoro_stop_event' = TRUE

\* ---------------------------------------------------------------- the synthesis worker
\* _run, stop observed at the while test
KokoroExit ==
    /\ kokoro_pc = "wait" /\ kokoro_stop_event
    /\ kokoro_pc' = "done"
    /\ last' = [op |-> "KokoroExit"]
    /\ UNCHANGED <<delivered, cancelled, kokoro_input_queue, output_queue, cancel_event, is_processing_event,
                   kokoro_stop_event, request, issued_in, configVars, soundVars, appVars, now, nchunks>>

\* _run, the while test passed: the worker goes on to input_queue.get
KokoroLoop ==
    /\ kokoro_pc = "wait" /\ ~kokoro_stop_event
    /\ kokoro_pc' = "get"
    /\ last' = [op |-> "KokoroLoop"]
    /\ UNCHANGED <<delivered, cancelled, kokoro_input_queue, output_queue, cancel_event, is_processing_event,
                   kokoro_stop_event, request, issued_in, configVars, soundVars, appVars, now, nchunks>>

\* _run: input_queue.get(timeout=1) on an empty queue raises Empty: continue
KokoroEmpty ==
    /\ kokoro_pc = "get" /\ kokoro_input_queue = <<>>
    /\ kokoro_pc' = "wait"
    /\ last' = [op |-> "KokoroEmpty"]
    /\ UNCHANGED <<delivered, cancelled, kokoro_input_queue, output_queue, cancel_event, is_processing_event,
                   kokoro_stop_event, request, issued_in, configVars, soundVars, appVars, now, nchunks>>

\* _run: a DataInput is taken from the queue; the cancellation flag is
\* cleared, processing is marked and the engine's generator is created
KokoroTake ==
    /\ kokoro_pc = "get"
    /\ kokoro_input_queue # <<>> /\ ~IsUpdateConfig(Head(kokoro_input_queue))
    /\ kokoro_input_queue' = Tail(kokoro_input_queue)
    /\ cancel_event' = FALSE
    /\ is_processing_event' = TRUE
    /\ request' = [input |-> Head(kokoro_input_queue), first_chunk |-> TRUE, emitted |-> 0]
    /\ kokoro_pc' = "generate"
    /\ issued_in' = [issued_in EXCEPT !.queue = Tail(@), !.request = Head(issued_in.queue)]
    /\ last' = [op |-> "KokoroTake"]
    /\ UNCHANGED <<delivered, cancelled, output_queue, kokoro_stop_event, configVars, soundVars, appVars, now,
                   nchunks>>

\* _run: an UpdateConfig is taken from the queue; the pipeline is rebuilt
\* when the new config is not pipeline-equivalent to the stored one, and the
\* new config is stored
KokoroUpdateConfig ==
    /\ kokoro_pc = "get"
    /\ kokoro_input_queue # <<>> /\ IsUpdateConfig(Head(kokoro_input_queue))
    /\ LET new == configs[Head(kokoro_input_queue).config]
           rebuild == ~compare_pipeline(configs[_config], new)
       IN  /\ pipeline' = IF rebuild THEN KPipeline(new) ELSE pipeline
           /\ last' = [op |-> "UpdateConfig", old |-> configs[_config], new |-> new,
                       rebuilt |-> rebuild, pipeline |-> pipeline,
                       is_processing_event |-> is_processing_event]
    /\ _config' = Head(kokoro_input_queue).config
    /\ kokoro_pc' = "wait"
    /\ kokoro_input_queue' = Tail(kokoro_input_queue)
    /\ issued_in' = [issued_in EXCEPT !.queue = Tail(@)]
    /\ UNCHANGED <<delivered, cancelled, output_queue, cancel_event, is_processing_event, kokoro_stop_event,
                   request, configs, held, soundVars, appVars, now, nchunks>>

\* _run: the engine's generator raises while the request is generated.
\* Nothing in _run catches it, so the worker thread ends where it is.
KokoroFail ==
    /\ kokoro_pc = "generate"
    /\ kokoro_pc' = "crashed"
    /\ last' = [op |-> "KokoroFail"]
    /\ UNCHANGED <<delivered, cancelled, kokoro_input_queue, output_queue, cancel_event, is_processing_event,
                   kokoro_stop_event, request, issued_in, configVars, soundVars, appVars,
                   now, nchunks>>

\* the check after a unit, leaving the cancellation flag set
AfterUnit_keeps_flag ==
    IF cancel_event
    THEN /\ is_processing_event' = FALSE
         /\ kokoro_pc' = "wait"
         /\ UNCHANGED cancel_event
    ELSE UNCHANGED <<cancel_event, is_processing_event, kokoro_pc>>

\* after a yielded unit: if self._cancel_event.is_set(): clear it and break;
\* leaving the for loop clears _is_processing_event
AfterUnit ==
    IF cancel_event
    THEN /\ cancel_event' = FALSE
         /\ is_processing_event' = FALSE
         /\ kokoro_pc' = "wait"
    ELSE UNCHANGED <<cancel_event, is_processing_event, kokoro_pc>>

\* an iteration that never resets first_chunk
KokoroYield_overwrites_every_chunk ==
    /\ kokoro_pc = "generate" /\ nchunks < MaxChunks
    /\ output_queue' = Append(output_queue,
                              Output(ChunkOf(nchunks + 1), request.input.index,
                                     request.input.generation,
                                     request.input.overwrite /\ request.first_chunk))
    /\ request' = [request EXCEPT !.emitted = @ + 1]
    /\ nchunks' = nchunks + 1
    /\ issued_in' = [issued_in EXCEPT !.chunk = Append(@, issued_in.request)]
    /\ AfterUnit
    /\ last' = [op |-> "KokoroYield", request |-> request, cancel_event |-> cancel_event,
                output_queue |-> output_queue]
    /\ UNCHANGED <<delivered, cancelled, kokoro_input_queue, kokoro_stop_event, configVars, soundVars, appVars, now>>

\* _run, one iteration of "for r in generator" where r.audio is not None:
\* the chunk is put on the output queue, tagged with the request's index and
\* generation, and with overwrite only on the first chunk of the request
KokoroYield ==
    /\ kokoro_pc = "generate" /\ nchunks < MaxChunks
    /\ output_queue' = Append(output_queue,
                              Output(ChunkOf(nchunks + 1), request.input.index,
                                     request.input.generation,
                                     request.input.overwrite /\ request.first_chunk))
    /\ request' = [request EXCEPT !.first_chunk = FALSE, !.emitted = @ + 1]
    /\ nchunks' = nchunks + 1
    /\ issued_in' = [issued_in EXCEPT !.chunk = Append(@, issued_in.request)]
    /\ AfterUnit
    /\ last' = [op |-> "KokoroYield", request |-> request, cancel_event |-> cancel_event,
                output_queue |-> output_queue]
    /\ UNCHANGED <<delivered, cancelled, kokoro_input_queue, kokoro_stop_event, configVars, soundVars, appVars, now>>

\* _run, one iteration where r.audio is None: nothing is put; the iteration
\* is visible only when it observes a cancellation
KokoroSilent ==
    /\ kokoro_pc = "generate" /\ cancel_event
    /\ AfterUnit
    /\ last' = [op |-> "KokoroSilent", request |-> request, cancel_event |-> cancel_event,
                output_queue |-> output_queue]
    /\ UNCHANGED <<delivered, cancelled, kokoro_input_queue, output_queue, kokoro_stop_event, request,
                   issued_in, configVars, soundVars, appVars, now, nchunks>>

\* _run: the generator is exhausted
KokoroExhaust ==
    /\ kokoro_pc = "generate"
    /\ is_processing_event' = FALSE
    /\ kokoro_pc' = "wait"
    /\ last' = [op |-> "KokoroExhaust"]
    /\ UNCHANGED <<delivered, cancelled, kokoro_input_queue, output_queue, cancel_event, kokoro_stop_event,
                   request, issued_in, configVars, soundVars, appVars, now, nchunks>>

\* ---------------------------------------------------------------- a direct caller of KokoroAgent
\* deepcopy(c): a new Config object with the value of object c
deepcopy(c) == Append(configs, configs[c])

\* the synthesis worker's variables a cancel() could touch
kokoroState == <<kokoro_input_queue, output_queue, cancel_event, is_processing_event,
                 kokoro_stop_event, kokoro_pc, request, configs, _config, pipeline>>

\* feed(DataInput(...)) for any index, with a generation of its own for each
\* index, and any overwrite flag
CallKokoroFeed ==
    /\ ~kokoro_stop_event /\ Len(kokoro_input_queue) < MaxQueue
    /\ \E i \in IndexArgs, overwrite \in BOOLEAN :
          kokoro_feed(<<1>>, i, 10 + i, overwrite)
    /\ issued_in' = [issued_in EXCEPT !.queue = Append(@, clears)]
    /\ last' = [op |-> "kokoro_feed"]
    /\ UNCHANGED <<delivered, cancelled, output_queue, cancel_event, is_processing_event, kokoro_stop_event,
                   kokoro_pc, request, configVars, soundVars, appVars, now, nchunks>>

\* cancel()
CallCancel ==
    /\ ~kokoro_stop_event
    /\ cancel
    /\ last' = [op |-> "cancel", before |-> kokoroState]
    /\ UNCHANGED <<delivered, cancelled, kokoro_input_queue, output_queue, is_processing_event,
                   kokoro_stop_event, kokoro_pc, request, issued_in, configVars,
                   soundVars, appVars, now, nchunks>>

\* set_config(c) with a Config the caller holds: a deep copy is queued
CallSetConfig ==
    /\ ~kokoro_stop_event /\ Len(kokoro_input_queue) < MaxQueue
    /\ Len(configs) < MaxObjects
    /\ \E c \in held :
          /\ configs' = deepcopy(c)
          /\ kokoro_input_queue' = Append(kokoro_input_queue, UpdateConfig(Len(configs) + 1))
    /\ issued_in' = [issued_in EXCEPT !.queue = Append(@, clears)]
    /\ last' = [op |-> "set_config"]
    /\ UNCHANGED <<delivered, cancelled, output_queue, cancel_event, is_processing_event, kokoro_stop_event,
                   kokoro_pc, request, _config, pipeline, held, soundVars, appVars,
                   now, nchunks>>

\* get_config(): the caller receives a deep copy of the stored Config
CallGetConfig ==
    /\ ~kokoro_stop_event /\ Len(configs) < MaxObjects
    /\ configs' = deepcopy(_config)
    /\ held' = held \cup {Len(configs) + 1}
    /\ last' = [op |-> "get_config"]
    /\ UNCHANGED <<delivered, cancelled, kokoro_input_queue, output_queue, cancel_event, is_processing_event,
                   kokoro_stop_event, kokoro_pc, request, issued_in, _config, pipeline,
                   soundVars, appVars, now, nchunks>>

\* the caller assigns to the fields of a Config object it holds
CallMutate ==
    /\ ~kokoro_stop_event
    /\ \E c \in held, v \in ConfigChoices :
          /\ v # configs[c]
          /\ configs' = [configs EXCEPT ![c] = v]
          /\ last' = [op |-> "mutate", object |-> c, stored |-> configs[_config]]
    /\ UNCHANGED <<delivered, cancelled, kokoro_input_queue, output_queue, cancel_event, is_processing_event,
                   kokoro_stop_event, kokoro_pc, request, issued_in, _config, pipeline,
                   held, soundVars, appVars, now, nchunks>>

\* get_outputs(): the caller takes one Output
CallGetOutputs ==
    /\ ~kokoro_stop_event /\ output_queue # <<>>
    /\ output_queue' = Tail(output_queue)
    /\ last' = [op |-> "get_outputs"]
    /\ UNCHANGED <<delivered, cancelled, kokoro_input_queue, cancel_event, is_processing_event,
                   kokoro_stop_event, kokoro_pc, request, issued_in, configVars,
                   soundVars, appVars, now, nchunks>>

\* stop()
CallKokoroStop ==
    /\ ~kokoro_stop_event
    /\ kokoro_stop
    /\ last' = [op |-> "kokoro_stop"]
    /\ UNCHANGED <<delivered, cancelled, kokoro_input_queue, output_queue, is_processing_event, kokoro_pc,
                   request, issued_in, configVars, soundVars, appVars, now, nchunks>>

KokoroNext ==
    \/ CallKokoroFeed \/ CallCancel \/ CallSetConfig \/ CallGetOutputs \/ CallKokoroStop
    \/ KokoroExit \/ KokoroLoop \/ KokoroEmpty \/ KokoroTake \/ KokoroUpdateConfig
    \/ KokoroYield \/ KokoroSilent \/ KokoroExhaust \/ KokoroFail

\* the synthesis worker driven through its public API by an arbitrary
\* caller that feeds, cancels, sets the config it holds and takes the
\* outputs, with an engine that may fail
KokoroSpec == Init /\ [][KokoroNext]_vars

\* the synthesis worker's thread is scheduled: each step of _run that can be
\* taken is eventually taken; the engine's stream is finite, so a request
\* that is being generated is eventually exhausted unless it ends otherwise
KokoroFair ==
    /\ WF_vars(KokoroExit) /\ WF_vars(KokoroLoop) /\ WF_vars(KokoroEmpty)
    /\ WF_vars(KokoroTake) /\ WF_vars(KokoroUpdateConfig) /\ WF_vars(KokoroExhaust)

KokoroLiveSpec == KokoroSpec /\ KokoroFair

\* ---------------------------------------------------------------- the order of the synthesis output
\* feed calls numbered by the caller: the n-th call (n from 0, counted in
\* npastes) carries n as its text and as its generation, for any index and
\* overwrite flag, so that an Output names the feed call it belongs to
CallKokoroFeedNumbered ==
    /\ ~kokoro_stop_event /\ Len(kokoro_input_queue) < MaxQueue /\ npastes < MaxPastes
    /\ \E i \in IndexArgs, overwrite \in BOOLEAN :
          kokoro_feed(<<npastes + 1>>, i, npastes, overwrite)
    /\ npastes' = npastes + 1
    /\ issued_in' = [issued_in EXCEPT !.queue = Append(@, clears)]
    /\ last' = [op |-> "kokoro_feed"]
    /\ UNCHANGED <<output_queue, cancel_event, is_processing_event, kokoro_stop_event,
                   kokoro_pc, request, configVars, delivered, cancelled, soundVars, index, texts,
                   generation, clears, now, nchunks>>

\* a consumer that takes the newest Output instead of the oldest
CallReceive_takes_newest ==
    /\ ~kokoro_stop_event /\ output_queue # <<>>
    /\ delivered' = Append(delivered, output_queue[Len(output_queue)])
    /\ output_queue' = SubSeq(output_queue, 1, Len(output_queue) - 1)
    /\ last' = [op |-> "get_outputs"]
    /\ UNCHANGED <<cancelled, kokoro_input_queue, cancel_event, is_processing_event,
                   kokoro_stop_event, kokoro_pc, request, issued_in, configVars,
                   soundVars, appVars, now, nchunks>>

\* get_outputs(), one Output yielded to a consumer that keeps what it gets
CallReceive ==
    /\ ~kokoro_stop_event /\ output_queue # <<>>
    /\ delivered' = Append(delivered, Head(output_queue))
    /\ output_queue' = Tail(output_queue)
    /\ last' = [op |-> "get_outputs"]
    /\ UNCHANGED <<cancelled, kokoro_input_queue, cancel_event, is_processing_event,
                   kokoro_stop_event, kokoro_pc, request, issued_in, configVars,
                   soundVars, appVars, now, nchunks>>

OrderNext ==
    \/ CallKokoroFeedNumbered \/ CallCancel \/ CallReceive \/ CallKokoroStop
    \/ KokoroExit \/ KokoroLoop \/ KokoroEmpty \/ KokoroTake
    \/ KokoroYield \/ KokoroSilent \/ KokoroExhaust \/ KokoroFail

\* the synthesis worker with a caller that numbers its feed calls, cancels,
\* and keeps the outputs it receives
OrderSpec == Init /\ [][OrderNext]_vars

\* cancel(), by a caller that notes how many feed calls it has made and how
\* many chunks have been produced when it cancels
CallCancelMarked ==
    /\ ~kokoro_stop_event
    /\ cancel
    /\ cancelled' = [requests |-> npastes, chunks |-> nchunks]
    /\ last' = [op |-> "cancel", before |-> kokoroState]
    /\ UNCHANGED <<delivered, kokoro_input_queue, output_queue, is_processing_event,
                   kokoro_stop_event, kokoro_pc, request, issued_in, configVars,
                   soundVars, appVars, now, nchunks>>

CancelNext ==
    \/ CallKokoroFeedNumbered \/ CallCancelMarked \/ CallReceive \/ CallKokoroStop
    \/ KokoroExit \/ KokoroLoop \/ KokoroEmpty \/ KokoroTake
    \/ KokoroYield \/ KokoroSilent \/ KokoroExhaust \/ KokoroFail

\* the synthesis worker with a caller that numbers its feed calls, keeps the
\* outputs, and notes where each cancel() falls among its feed calls
CancelSpec == Init /\ [][CancelNext]_vars

ConfigNext ==
    \/ CallSetConfig \/ CallGetConfig \/ CallMutate \/ CallKokoroStop
    \/ KokoroExit \/ KokoroLoop \/ KokoroEmpty \/ KokoroUpdateConfig

\* the synthesis worker's configuration: a caller that sets and gets
\* configs and assigns to the Config objects it holds
ConfigSpec == Init /\ [][ConfigNext]_vars

\* ---------------------------------------------------------------- KokoroApp
\* a listener that routes by index alone
kokoro_listener_ignores_generation ==
    /\ ~kokoro_stop_event /\ output_queue # <<>> /\ Len(input_queue) < MaxQueue
    /\ LET chunk == Head(output_queue) IN
          /\ output_queue' = Tail(output_queue)
          /\ IF chunk.index < Len(texts)
             THEN feed(chunk.audio, chunk.index, chunk.overwrite)
             ELSE UNCHANGED input_queue
          /\ last' = [op |-> "kokoro_listener", chunk |-> chunk, generation |-> generation,
                      texts |-> texts, input_queue |-> input_queue]
    /\ UNCHANGED <<delivered, cancelled, last_yielded, text_lock, agent, text_indices, is_playing, stop_event, sound_output_queue, player, pc,
                   kokoro_input_queue, cancel_event, is_processing_event,
                   kokoro_stop_event, kokoro_pc, request, issued_in, configVars, appVars, now, nchunks>>

\* KokoroApp.kokoro_listener: one chunk from get_outputs()
kokoro_listener ==
    /\ ~kokoro_stop_event /\ output_queue # <<>> /\ Len(input_queue) < MaxQueue
    /\ LET chunk == Head(output_queue) IN
          /\ output_queue' = Tail(output_queue)
          /\ IF chunk.generation = generation /\ chunk.index < Len(texts)
             THEN feed(chunk.audio, chunk.index, chunk.overwrite)
             ELSE UNCHANGED input_queue
          /\ last' = [op |-> "kokoro_listener", chunk |-> chunk, generation |-> generation,
                      texts |-> texts, input_queue |-> input_queue]
    /\ UNCHANGED <<delivered, cancelled, last_yielded, text_lock, agent, text_indices, is_playing, stop_event, sound_output_queue, player, pc,
                   kokoro_input_queue, cancel_event, is_processing_event,
                   kokoro_stop_event, kokoro_pc, request, issued_in, configVars, appVars, now, nchunks>>

\* KokoroApp.make_audio(text, append); the text pasted is new each time
make_audio(append) ==
    /\ ~kokoro_stop_event /\ npastes < MaxPastes /\ Len(kokoro_input_queue) < MaxQueue
    /\ LET text == <<npastes + 1>> IN
       IF ~append \/ index < 0
       THEN /\ cancel
            /\ index' = Len(texts)
            /\ kokoro_feed(text, Len(texts), generation, FALSE)
            /\ texts' = Append(texts, text)
       ELSE /\ kokoro_feed(text, index, generation, FALSE)
            /\ texts' = [texts EXCEPT ![index + 1] = @ \o text]
            /\ UNCHANGED <<cancel_event, index>>
    /\ npastes' = npastes + 1
    /\ issued_in' = [issued_in EXCEPT !.queue = Append(@, clears)]
    /\ UNCHANGED <<delivered, cancelled, output_queue, is_processing_event, kokoro_stop_event, kokoro_pc, request,
                   configVars, generation, clears, soundVars, now, nchunks>>

\* KokoroApp.action_new
action_new == make_audio(FALSE) /\ last' = [op |-> "action_new"]
\* KokoroApp.action_append (and a socket message with append set)
action_append == make_audio(TRUE) /\ last' = [op |-> "action_append"]

\* KokoroApp.action_regenerate
action_regenerate ==
    /\ ~kokoro_stop_event /\ Len(kokoro_input_queue) < MaxQueue
    /\ index >= 0
    /\ cancel
    /\ kokoro_feed(texts[index + 1], index, generation, TRUE)
    /\ issued_in' = [issued_in EXCEPT !.queue = Append(@, clears)]
    /\ last' = [op |-> "action_regenerate"]
    /\ UNCHANGED <<delivered, cancelled, output_queue, is_processing_event, kokoro_stop_event, kokoro_pc, request,
                   configVars, appVars, soundVars, now, nchunks>>

\* a clear_history that keeps the generation
action_clear_history_keeps_generation ==
    /\ ~kokoro_stop_event /\ clears < MaxClears /\ Len(input_queue) < MaxQueue
    /\ cancel
    /\ index' = -1
    /\ texts' = <<>>
    /\ clear_history
    /\ clears' = clears + 1
    /\ last' = [op |-> "action_clear_history"]
    /\ UNCHANGED <<delivered, cancelled, last_yielded, text_lock, agent, text_indices, is_playing, stop_event, sound_output_queue, player, pc,
                   kokoro_input_queue, output_queue, is_processing_event,
                   kokoro_stop_event, kokoro_pc, request, issued_in, configVars, generation,
                   npastes, now, nchunks>>

\* KokoroApp.action_clear_history
action_clear_history ==
    /\ ~kokoro_stop_event /\ clears < MaxClears /\ Len(input_queue) < MaxQueue
    /\ cancel
    /\ generation' = generation + 1
    /\ index' = -1
    /\ texts' = <<>>
    /\ clear_history
    /\ clears' = clears + 1
    /\ last' = [op |-> "action_clear_history"]
    /\ UNCHANGED <<delivered, cancelled, last_yielded, text_lock, agent, text_indices, is_playing, stop_event, sound_output_queue, player, pc,
                   kokoro_input_queue, output_queue, is_processing_event,
                   kokoro_stop_event, kokoro_pc, request, issued_in, configVars, npastes, now, nchunks>>

\* KokoroApp.update_selection: the list view highlights item i
update_selection ==
    /\ ~kokoro_stop_event /\ Len(input_queue) < MaxQueue
    /\ \E i \in 0..(Len(texts) - 1) :
          /\ i # index
          /\ cancel
          /\ change_track(i)
          /\ index' = i
    /\ last' = [op |-> "update_selection"]
    /\ UNCHANGED <<delivered, cancelled, last_yielded, text_lock, agent, text_indices, is_playing, stop_event, sound_output_queue, player, pc,
                   kokoro_input_queue, output_queue, is_processing_event,
                   kokoro_stop_event, kokoro_pc, request, issued_in, configVars, texts, generation,
                   npastes, clears, now, nchunks>>

\* KokoroApp.action_quit: both workers are stopped (and then joined)
action_quit ==
    /\ ~kokoro_stop_event
    /\ kokoro_stop
    /\ stop
    /\ last' = [op |-> "action_quit"]
    /\ UNCHANGED <<delivered, cancelled, last_yielded, text_lock, input_queue, agent, text_indices, player, pc, sound_output_queue,
                   kokoro_input_queue, output_queue, is_processing_event, kokoro_pc,
                   request, issued_in, configVars, appVars, now, nchunks>>

Next ==
    \/ action_new \/ action_append \/ action_regenerate \/ action_clear_history
    \/ update_selection \/ action_quit
    \/ kokoro_listener
    \/ KokoroExit \/ KokoroLoop \/ KokoroEmpty \/ KokoroTake
    \/ KokoroYield \/ KokoroSilent \/ KokoroExhaust
    \/ RunExit \/ IdleInput \/ OpenDevice \/ Scan \/ Poll \/ Check
    \/ DeviceDrain

\* the routing pipeline: the app feeding the synthesis worker, the listener
\* routing its chunks into the playback worker, selection, clearing and
\* quitting.  Routing never reads the clock, which stands still here; the
\* clock and the transport calls are explored in SoundSpec.
Spec == Init /\ [][Next]_vars

\* ================================================================ claims
\* the last step was the listener handling a chunk; it passed the chunk on
\* to the playback worker, or dropped it
Listened == last.op = "kokoro_listener"
Forwarded ==
    /\ Listened
    /\ input_queue = Append(last.input_queue,
                            DataInput(last.chunk.audio, last.chunk.index,
                                      last.chunk.overwrite))
Dropped == Listened /\ input_queue = last.input_queue

\* C1: the listener forwards a chunk to the playback worker if and only if
\* the chunk's generation is the app's generation and the chunk's index is
\* less than the number of texts; every other chunk is dropped.
C1_ForwardIffCurrent ==
    Listened =>
        IF last.chunk.generation = last.generation
              /\ last.chunk.index < Len(last.texts)
        THEN Forwarded
        ELSE Dropped

\* a chunk whose index is in range is dropped because its generation is stale
C1_Witness ==
    /\ Dropped
    /\ last.chunk.generation # last.generation
    /\ last.chunk.index < Len(last.texts)

\* the number of clear_history calls made when the app issued the request
\* that produced the chunk the listener handled last
ChunkIssuedIn == issued_in.chunk[last.chunk.audio.data[1]]

\* C2: the generation never decreases and every clear_history increases it;
\* a chunk produced by a request issued before a clear_history is never
\* forwarded to the playback worker after that clear_history.
C2_ClearFencesOldChunks ==
    /\ [][/\ generation' >= generation
          /\ clears' # clears => generation' > generation]_vars
    /\ [](Forwarded => ChunkIssuedIn = clears)

\* a chunk of a request issued before the clear_history reaches the listener
\* after it, when texts have been pasted again, and is dropped
C2_Witness ==
    /\ Dropped
    /\ ChunkIssuedIn < clears
    /\ texts # <<>>

\* the last step applied a DataInput / the branch of DataInput.apply it took
AppliedData == last.op = "apply" /\ last.input.kind = "DataInput"
IsNewTrack == AppliedData /\ Len(last.agent._data) <= last.input.index
IsOverwrite == /\ AppliedData /\ last.input.index < Len(last.agent._data)
               /\ last.input.overwrite
IsAppend == /\ AppliedData /\ last.input.index < Len(last.agent._data)
            /\ ~last.input.overwrite
\* the track a DataInput for an existing index targets, before and after
OldTrack == last.agent._data[last.input.index + 1]
NewTrack == agent._data[last.input.index + 1]
\* the device was streaming when the last command was applied
WasStreaming == last.player.open /\ last.agent._start_timestamp # None

\* C3: every append (overwrite = false) to an existing track leaves the
\* track's samples equal to the old samples followed by the chunk's, and its
\* tokens equal to the old tokens, unshifted, followed by the chunk's tokens
\* with their sample spans shifted by the track's length before the append.
\* By induction on the sequence of appends this is the concatenation of all
\* chunks with each chunk's tokens shifted by the cumulative prefix length.
C3_AppendConcatenates ==
    IsAppend =>
        /\ NewTrack.data = OldTrack.data \o last.input.chunk.data
        /\ NewTrack.tokens =
              OldTrack.tokens \o
              [k \in 1..Len(last.input.chunk.tokens) |->
                  Token(last.input.chunk.tokens[k].text_index_start,
                        last.input.chunk.tokens[k].text_index_end,
                        last.input.chunk.tokens[k].start_index + Len(OldTrack.data),
                        last.input.chunk.tokens[k].end_index + Len(OldTrack.data))]

\* a second append: the track already holds two chunks (one of them shifted)
\* and a third chunk with a token has just been appended
C3_Witness ==
    /\ IsAppend
    /\ Len(OldTrack.data) = 2 /\ Len(OldTrack.tokens) = 2
    /\ Len(last.input.chunk.tokens) = 1
    /\ Len(NewTrack.data) = 3

\* C4: an overwrite feed on an existing track leaves that track's samples
\* and tokens exactly the chunk's, whatever the track held and whichever
\* track is selected.
C4_OverwriteReplaces ==
    IsOverwrite => NewTrack = last.input.chunk

\* an overwrite of a track that held something else and is not the selected one
C4_Witness ==
    /\ IsOverwrite
    /\ OldTrack # last.input.chunk
    /\ last.agent._track_index # last.input.index

\* C5: a chunk for an index at or beyond the history length appends a new
\* track holding exactly the chunk, leaves the earlier tracks alone, makes
\* the new track the active one and resets the playback position to 0.
C5_NewTrackSelected ==
    IsNewTrack =>
        /\ agent._data = Append(last.agent._data, last.input.chunk)
        /\ agent._track_index = Len(last.agent._data)
        /\ agent._start_index = 0
        /\ _current_index(agent, now) = 0

\* a new track arrives while another track is being streamed at a position
\* past 0
C5_Witness ==
    /\ IsNewTrack
    /\ WasStreaming
    /\ _current_index(last.agent, now) > 0
    /\ agent._track_index = 1

\* C8: an append that lands in the selected track while the device streams
\* it is appended to the track and to the device queue; playback is not
\* restarted: _start_index and _start_timestamp are unchanged and what was
\* queued stays queued.
C8_AppendWhileStreaming ==
    (IsAppend /\ last.input.index = last.agent._track_index /\ WasStreaming) =>
        /\ NewTrack.data = OldTrack.data \o last.input.chunk.data
        /\ player.open
        /\ player.queue = last.player.queue \o last.input.chunk.data
        /\ agent._start_index = last.agent._start_index
        /\ agent._start_timestamp = last.agent._start_timestamp

\* the append arrives while audio of the selected track is still queued
C8_Witness ==
    /\ IsAppend /\ last.input.index = last.agent._track_index /\ WasStreaming
    /\ last.player.queue # <<>>
    /\ Len(player.queue) = Len(last.player.queue) + 1

\* the last step applied a ChangeTrack / a SeekSecs
AppliedChangeTrack == last.op = "apply" /\ last.input.kind = "ChangeTrack"
AppliedSeek == last.op = "apply" /\ last.input.kind = "SeekSecs"

\* C6: change_track(i) with i >= history length selects the last track, or
\* leaves the worker in the "no track" state when the history is empty; with
\* i in range it selects exactly i.  The worker is left in that state, that
\* is, it goes on running.
C6_ChangeTrackClamps ==
    AppliedChangeTrack =>
        /\ agent._track_index =
              IF last.input.index >= Len(last.agent._data)
              THEN Len(last.agent._data) - 1
              ELSE last.input.index
        /\ pc # "crashed"

\* round(num/den) as Python rounds: to the nearest integer, ties to even
round(num, den) ==
    LET q == num \div den
        r == num % den
    IN  IF 2 * r < den THEN q
        ELSE IF 2 * r > den THEN q + 1
        ELSE IF q % 2 = 0 THEN q ELSE q + 1

clamp(x, lo, hi) == IF x < lo THEN lo ELSE IF x > hi THEN hi ELSE x

\* C7: with a track selected, the effective position read right after
\* seek_secs(s) was applied (the clock has not advanced) is
\* clamp(position_before + round(s * SAMPLE_RATE), 0, track length), where
\* position_before is the effective position when the seek was applied.
C7_SeekClamped ==
    (AppliedSeek /\ last.agent._track_index >= 0) =>
        _current_index(agent, now) =
            clamp(_current_index(last.agent, now)
                      + round(last.input.secs, TicksPerSample),
                  0, Len(_get_data(last.agent)))

\* the samples of the sequence xs, as a set
Samples_of(xs) == {xs[j] : j \in DOMAIN xs}

\* C9: a chunk that lands in an existing track other than the selected one
\* is stored in that track and none of its samples is queued onto the
\* device.
C9_OnlySelectedTrackQueued ==
    ((IsAppend \/ IsOverwrite) /\ last.input.index # agent._track_index) =>
        /\ Samples_of(last.input.chunk.data) \subseteq Samples_of(NewTrack.data)
        /\ Samples_of(last.input.chunk.data) \cap Samples_of(player.queue) = {}

\* the chunk of the last DataInput landed in the track that is active after it
LandedInActive ==
    \/ IsNewTrack
    \/ (IsOverwrite \/ IsAppend) /\ last.input.index = last.agent._track_index

Scanned == last.op = "_update_text_indices"
\* the tokens of the active track (1-based) that contain the live position
TokensAtPosition ==
    LET tokens == agent._data[agent._track_index + 1].tokens IN
    {k \in 1..Len(tokens) : /\ tokens[k].start_index <= _current_index(agent, now)
                            /\ tokens[k].end_index >= _current_index(agent, now)}
\* those of them at or after the cursor the scan started from
TokensAhead == {k \in TokensAtPosition : k > last.token_index}

\* C11: while streaming, the highlight published by a scan is the text span
\* of the first token, from the last matched token on, that contains the
\* live position; it is None when no token of the active track contains the
\* position, and only then (a position inside a token is highlighted, also
\* right after a backward seek or a track change).
C11_HighlightFollowsPosition ==
    Scanned =>
        LET tokens == agent._data[agent._track_index + 1].tokens IN
        /\ TokensAhead # {} =>
              \E k \in TokensAhead :
                  /\ \A j \in TokensAhead : k <= j
                  /\ text_indices = [start |-> tokens[k].text_index_start,
                                     end   |-> tokens[k].text_index_end]
        /\ (TokensAtPosition = {}) <=> (text_indices = NoRange)

\* the last step applied a ClearHistory
AppliedClear == last.op = "apply" /\ last.input.kind = "ClearHistory"

\* C12: after the worker applies clear_history the history is empty, no
\* track is active, the position is 0 and no start timestamp is held,
\* whatever the state before.
C12_ClearResetsTracks ==
    AppliedClear =>
        /\ agent._data = <<>>
        /\ agent._track_index = -1
        /\ agent._start_index = 0
        /\ agent._start_timestamp = None

\* clear_history is applied while a track is streaming from a position
\* other than 0
C12_Witness ==
    /\ AppliedClear
    /\ last.player.open /\ last.agent._start_timestamp # None
    /\ last.agent._start_index > 0
    /\ Len(last.agent._data) > 1
    /\ agent._data = <<>> /\ agent._start_index = 0

\* C13: after the worker applies clear_history the published highlight
\* range is None and the last-matched token cursor is 0.
C13_ClearResetsHighlight ==
    AppliedClear => text_indices = NoRange /\ agent._token_index = 0

\* the last step was an iteration of the generator loop that put a chunk
Yielded == last.op = "KokoroYield"
\* the Output it put
Emitted == output_queue[Len(output_queue)]

\* C14: each chunk the worker emits carries the index and generation of the
\* request being generated; it carries overwrite exactly when the request
\* asked for overwrite and the chunk is the first one emitted for the
\* request, so every later chunk of the request appends.
C14_OnlyFirstChunkOverwrites ==
    Yielded =>
        /\ output_queue = Append(last.output_queue, Emitted)
        /\ Emitted.index = last.request.input.index
        /\ Emitted.generation = last.request.input.generation
        /\ Emitted.overwrite = (last.request.input.overwrite /\ last.request.emitted = 0)

\* a later chunk of a request that asked for overwrite is emitted without it
C14_Witness ==
    /\ Yielded
    /\ last.request.input.overwrite
    /\ last.request.emitted > 0
    /\ ~Emitted.overwrite


\* the last step was a unit of the engine's stream observed while the
\* cancellation flag was set
ObservedCancel == last.op \in {"KokoroYield", "KokoroSilent"} /\ last.cancel_event

\* the last step was a cancel() called while the flag was already set
CancelledAgain == last.op = "cancel" /\ last.before[3]

\* C15: cancel() only sets the cancellation flag; a unit of the stream that
\* finds the flag set emits at most the chunk it was producing, clears the
\* flag, marks not-processing and ends the request, the worker going back to
\* wait for input; a cancel() called while the flag is already set changes
\* nothing
C15_CancelCooperativeIdempotent ==
    /\ ObservedCancel =>
          /\ ~cancel_event /\ ~is_processing_event /\ kokoro_pc = "wait"
          /\ request.emitted <= last.request.emitted + 1
          /\ Len(output_queue) = Len(last.output_queue)
                                   + (request.emitted - last.request.emitted)
    /\ last.op = "cancel" =>
          /\ cancel_event
          /\ kokoroState = [i \in 1..Len(last.before) |->
                               IF i = 3 THEN TRUE ELSE last.before[i]]
    /\ CancelledAgain => kokoroState = last.before

\* a cancellation observed after a chunk of a request that had already
\* emitted one
C15_Witness ==
    /\ ObservedCancel /\ last.op = "KokoroYield"
    /\ last.request.emitted >= 1
    /\ Len(output_queue) = Len(last.output_queue) + 1

\* cancel() called a second time while a request is being generated
C15_CancelledTwice == CancelledAgain /\ kokoro_pc = "generate"


\* C16: is_processing() is true exactly while a request is being generated,
\* and applying an UpdateConfig leaves it as it was
C16_ProcessingIffGenerating ==
    /\ is_processing_event <=> kokoro_pc = "generate"
    /\ last.op = "UpdateConfig" => is_processing_event = last.is_processing_event

\* C17: after the engine fails while a request is generated the worker is
\* not processing and is back waiting for input
C17_FailureReturnsToIdle ==
    last.op = "KokoroFail" => ~is_processing_event /\ kokoro_pc = "wait"


\* the last step applied an UpdateConfig
AppliedUpdateConfig == last.op = "UpdateConfig"

\* C18: applying an UpdateConfig rebuilds the pipeline exactly when the new
\* config is not pipeline-equivalent to the stored one and stores the new
\* config, so that afterwards the pipeline's lang_code, transformer mode and
\* device are those of the stored config
C18_PipelineFollowsConfig ==
    AppliedUpdateConfig =>
        /\ last.rebuilt <=> KPipeline(last.old) # KPipeline(last.new)
        /\ pipeline = IF last.rebuilt THEN KPipeline(last.new) ELSE last.pipeline
        /\ configs[_config] = last.new
        /\ pipeline = KPipeline(configs[_config])

\* C19: an assignment by the caller to a Config object it holds leaves the
\* configuration stored in the worker as it was
C19_StoredConfigOwned ==
    last.op = "mutate" => configs[_config] = last.stored


\* the last step applied a Save / with a track active
AppliedSave == last.op = "apply" /\ last.input.kind = "Save"
SavedTrack == AppliedSave /\ last.agent._track_index >= 0

\* C20: a Save applied with a track active appends exactly one Output to the
\* result channel, with no error exactly when the track's buffer could be
\* read and written to the path; a Save applied with no track appends
\* nothing; either way the worker does not raise and its history, active
\* index, position and device queue are as before
C20_SaveAnswersOnce ==
    AppliedSave =>
        /\ pc # "crashed"
        /\ agent = last.agent /\ player = last.player
        /\ IF last.agent._track_index < 0
           THEN sound_output_queue = last.output_queue
           ELSE /\ Len(sound_output_queue) = Len(last.output_queue) + 1
                /\ SubSeq(sound_output_queue, 1, Len(last.output_queue)) = last.output_queue
                /\ sound_output_queue[Len(sound_output_queue)].error = "None"
                       <=> IndexOk(last.agent) /\ Writable(last.input.path)

\* a save to a path that cannot be written, applied with a track active
C20_Witness ==
    /\ SavedTrack /\ ~Writable(last.input.path)
    /\ sound_output_queue = Append(last.output_queue, SoundOutput("LibsndfileError"))


\* C21: applying a ChangeTrack or a SeekSecs, with any argument and any
\* history, does not raise: the worker's loop goes on
C21_SeekAndTrackNeverRaise ==
    (AppliedChangeTrack \/ AppliedSeek) => pc # "crashed"


\* C22: once stop() has been called on the synthesis worker, the worker
\* eventually finds the stop signal in its while test and returns
C22_StopLeadsToReturn == kokoro_stop_event ~> kokoro_pc = "done"

\* once stop() has been called the synthesis worker's thread eventually
\* ends, by returning or on an exception, so that join() completes
KokoroJoinCompletes == kokoro_stop_event ~> kokoro_pc \in {"done", "crashed"}

\* the same for the playback worker's process
SoundJoinCompletes == stop_event ~> pc \in {"done", "crashed"}

\* the playback worker returns after stop()
SoundStopLeadsToReturn == stop_event ~> pc = "done"


\* the last step was a yield of get_text_indices
YieldedRange == last.op = "yield"

\* C23: a value yielded by get_text_indices differs from the one yielded
\* before it; None is yielded only after a range has been yielded and when
\* the worker has reset the shared range; a pair is yielded only when it is
\* the shared range and both its ends are non-negative
C23_HighlightStreamDeduplicated ==
    YieldedRange =>
        /\ last.value # last.previous
        /\ last_yielded = last.value
        /\ last.value = NoYield =>
              /\ last.previous # NoYield
              /\ last.text_indices.start < 0 \/ last.text_indices.end < 0
        /\ last.value # NoYield =>
              /\ last.value = <<last.text_indices.start, last.text_indices.end>>
              /\ last.value[1] >= 0 /\ last.value[2] >= 0

\* None yielded after a range
C23_Witness == YieldedRange /\ last.value = NoYield /\ last.previous # NoYield

\* a range yielded right after another range
C23_RangeAfterRange ==
    YieldedRange /\ last.value # NoYield /\ last.previous # NoYield


\* the last step was pause(), play() or toggle_pp()
Transport == last.op \in {"pause", "play", "toggle_pp"}

\* C24: pause() leaves the playing flag clear and play() leaves it set
\* whatever it was, so that a second call in a row changes nothing;
\* toggle_pp() leaves the flag the opposite of what it was, so that two
\* toggles restore it; none of the three touches the worker's history,
\* active index, position, input queue, highlight or device
C24_TransportCalls ==
    Transport =>
        /\ last.op = "pause" => ~is_playing
        /\ last.op = "play" => is_playing
        /\ last.twice => is_playing = last.is_playing
        /\ last.op = "toggle_pp" => is_playing = ~last.is_playing
        /\ agent = last.agent /\ input_queue = last.input_queue
        /\ text_indices = last.text_indices /\ player = last.player /\ pc = last.pc

\* a second pause in a row, made while the worker holds a track
C24_Witness == last.op = "pause" /\ last.twice /\ agent._track_index >= 0

\* a toggle_pp made while the worker is streaming / a play while paused
C24_ToggledStreaming ==
    /\ last.op = "toggle_pp" /\ last.is_playing
    /\ pc \in {"scan", "poll", "check"} /\ agent._track_index >= 0
C24_Resumed == last.op = "play" /\ ~last.is_playing /\ agent._data # <<>>


\* every Output produced so far, in the order a consumer gets them: those
\* delivered, then those still queued
Stream == delivered \o output_queue

\* C25: the Outputs reach the consumer in the order the engine yielded
\* them (chunk k is the k-th unit yielded), and the chunks of one feed call
\* are never separated by a chunk of another: the feed calls appear in the
\* order they were processed, which is the order they were fed
C25_OutputInProductionOrder ==
    \A i, j \in 1..Len(Stream) :
        i < j => /\ Stream[i].audio.data[1] < Stream[j].audio.data[1]
                 /\ Stream[i].generation <= Stream[j].generation

\* two chunks of one feed call delivered, followed by a chunk of the next
C25_Witness ==
    /\ Len(delivered) >= 2 /\ Len(Stream) >= 3
    /\ Stream[1].generation = Stream[2].generation
    /\ Stream[Len(Stream)].generation # Stream[1].generation


\* the device is open on a selected track
DeviceStreaming == player.open /\ agent._track_index >= 0

\* C26: _start_timestamp is present exactly when the device is open on a
\* selected track; it is absent whenever the worker is in its idle polling
\* (paused, or at the end of the track) and whenever no track is selected
C26_TimestampIffStreaming ==
    /\ agent._start_timestamp # None <=> DeviceStreaming
    /\ pc = "idle" => agent._start_timestamp = None
    /\ agent._track_index < 0 => agent._start_timestamp = None

\* the worker has left the stream on a pause, in the middle of the track
C26_Witness ==
    /\ last.op = "Scan" /\ pc = "idle" /\ ~is_playing /\ ~stop_event
    /\ agent._track_index >= 0 /\ IndexOk(agent)
    /\ agent._start_index > 0 /\ agent._start_index < Len(_get_data(agent))
    /\ agent._start_timestamp = None /\ ~player.open

\* the history was cleared while the device was open
C26_ClearedWhileOpen == AppliedClear /\ player.open


\* the last step was the test of the device queue, which found it empty
DrainedAtCheck == last.op = "Check" /\ player.queue = <<>>

\* C27: when the worker finds the device queue empty while a track is
\* selected, it freezes the position at the length the active track has
\* then, clears the start timestamp and the highlight, closes the device and
\* is back in its idle polling
C27_DrainedTrackExhausted ==
    (DrainedAtCheck /\ agent._track_index >= 0) =>
        /\ pc = "idle" /\ ~player.open
        /\ IndexOk(agent) /\ agent._start_index = Len(_get_data(agent))
        /\ agent._start_timestamp = None
        /\ text_indices = NoRange /\ agent._token_index = 0
        /\ ~_should_play(agent, is_playing)

\* a track that had been appended to is exhausted while playback is enabled
C27_Witness ==
    /\ DrainedAtCheck /\ pc = "idle" /\ is_playing
    /\ agent._track_index >= 0 /\ IndexOk(agent)
    /\ Len(_get_data(agent)) >= 2 /\ agent._start_index = Len(_get_data(agent))

\* the device queue found empty after the history was cleared under it
C27_DrainedAfterClear == DrainedAtCheck /\ agent._track_index < 0


\* the last step appended a chunk to the active track while the worker was
\* idle at or past the end of that track, with playback enabled since
AppendedToExhausted ==
    /\ IsAppend /\ last.input.index = last.agent._track_index
    /\ ~last.player.open
    /\ last.agent._start_index >= Len(_get_data(last.agent))
    /\ is_playing /\ pc = "idle"

\* C28: after a chunk is appended to the exhausted active track with
\* playback enabled, the worker eventually opens the device again, unless
\* playback is disabled or another command is queued first
C28_AppendResumesStreaming ==
    AppendedToExhausted ~> (player.open \/ ~is_playing \/ input_queue # <<>>)

\* whenever the idle worker has playback enabled and audio of the active
\* track ahead of the position, the device is eventually opened, unless
\* that ceases to hold first
AudioAheadOpensDevice ==
    (pc = "idle" /\ _should_play(agent, is_playing))
        ~> (player.open \/ ~_should_play(agent, is_playing))


\* the worker has just taken the test of the play loop and left the loop
LeftPlayLoop == last.op = "Scan" /\ pc = "idle"

\* C29: the worker opens the device only with a track selected, playback
\* enabled and the position before the end of the active track; the device
\* is open only inside the play loop, every pass of the loop's test finds
\* the three conditions true, and the test that finds one of them false
\* closes the device
C29_DeviceOpenOnlyWhilePlayable ==
    /\ pc \in {"idle", "done"} => ~player.open
    /\ last.op = "OpenDevice" => player.open /\ _should_play(agent, is_playing)
    /\ last.op = "_update_text_indices" =>
           player.open /\ _should_play(agent, is_playing)
    /\ LeftPlayLoop => ~player.open /\ ~_should_play(agent, is_playing)

\* the device was closed by the loop's test in the middle of a track,
\* because playback had been disabled
C29_Witness ==
    /\ LeftPlayLoop /\ ~is_playing /\ ~player.open
    /\ agent._track_index >= 0
    /\ agent._start_index < Len(_get_data(agent))


\* the track a ChangeTrack selects in the history it is applied to
Selected ==
    IF last.input.index >= Len(last.agent._data)
    THEN Len(last.agent._data) - 1
    ELSE last.input.index

\* C30: a ChangeTrack applied to a non-empty history leaves the position at
\* 0 on the selected track; applied while the device is open it leaves the
\* device queue holding exactly the selected track's samples from offset 0
\* and the start timestamp at the time of the call, and applied while the
\* device is closed it leaves the device closed
C30_ChangeTrackRestarts ==
    (AppliedChangeTrack /\ last.agent._data # <<>>) =>
        /\ pc # "crashed"
        /\ agent._track_index = Selected
        /\ agent._start_index = 0
        /\ agent._data = last.agent._data
        /\ IF last.player.open
           THEN /\ player.open
                /\ player.queue = agent._data[Selected + 1].data
                /\ agent._start_timestamp = now
           ELSE /\ player = last.player
                /\ agent._start_timestamp = last.agent._start_timestamp

\* a ChangeTrack to another track was applied while the device was playing
\* from a later start, with audio still queued
C30_Witness ==
    /\ AppliedChangeTrack /\ last.agent._data # <<>>
    /\ WasStreaming /\ last.player.queue # <<>>
    /\ Selected # last.agent._track_index
    /\ last.agent._start_timestamp < now
    /\ player.queue = agent._data[Selected + 1].data


\* a SeekSecs was applied while the device was streaming a selected track
SoughtWhileStreaming ==
    AppliedSeek /\ WasStreaming /\ last.agent._track_index >= 0

\* the target of that seek: the live position moved by the argument, clamped
\* to the track
SeekTarget ==
    clamp(last.agent._start_index
              + Samples(now - last.agent._start_timestamp + last.input.secs),
          0, Len(_get_data(last.agent)))

\* playback was restarted from the target
RestartedFromTarget ==
    /\ agent._start_index = SeekTarget
    /\ agent._start_timestamp = now
    /\ player.open
    /\ player.queue = SubSeq(_get_data(agent), SeekTarget + 1, Len(_get_data(agent)))

\* C31: a seek applied while streaming leaves the position at the clamped
\* target computed from the live position, the start timestamp at the time
\* of the call and the device queue holding exactly the samples from the
\* target to the end of the track, for every target
C31_SeekRestartsFromLivePosition == SoughtWhileStreaming => RestartedFromTarget

\* the same for the targets before the end of the track
SeekInsideRestarts ==
    (SoughtWhileStreaming /\ SeekTarget < Len(_get_data(last.agent)))
        => RestartedFromTarget

\* a seek to the end of the track left the old timestamp and the old queue
C31_SoughtPastEnd ==
    /\ SoughtWhileStreaming /\ SeekTarget = Len(_get_data(last.agent))
    /\ agent._start_timestamp = last.agent._start_timestamp
    /\ player.queue = last.player.queue /\ player.queue # <<>>


\* the tokens of an Audio are ordered by sample start, do not overlap, and
\* lie within the samples
TokensWellFormed(audio) ==
    \A i \in 1..Len(audio.tokens) :
        /\ 0 <= audio.tokens[i].start_index
        /\ audio.tokens[i].start_index <= audio.tokens[i].end_index
        /\ audio.tokens[i].end_index <= Len(audio.data)
        /\ i < Len(audio.tokens) =>
               /\ audio.tokens[i].start_index < audio.tokens[i + 1].start_index
               /\ audio.tokens[i].end_index <= audio.tokens[i + 1].start_index

\* C32: every chunk fed has well-formed tokens (ChunkOf), and every track of
\* the history has tokens ordered by sample start, non-overlapping, with
\* every sample end at most the track's sample length
C32_TrackTokensWellFormed ==
    /\ \A k \in 1..MaxChunks : TokensWellFormed(ChunkOf(k))
    /\ \A k \in 1..Len(agent._data) : TokensWellFormed(agent._data[k])

\* a chunk was appended to a track that already held an appended chunk,
\* next to another track
C32_Witness ==
    /\ IsAppend
    /\ Len(agent._data) >= 2
    /\ Len(NewTrack.tokens) >= 2
    /\ NewTrack.tokens[Len(NewTrack.tokens)].end_index = Len(NewTrack.data)


\* C33: whenever a track is selected, the stored position lies between 0 and
\* the length of the active track's samples
C33_PositionWithinTrack ==
    (agent._track_index >= 0 /\ IndexOk(agent)) =>
        /\ 0 <= agent._start_index
        /\ agent._start_index <= Len(_get_data(agent))


\* _run_inner, line 154: the play loop is about to find the device queue
\* empty, and asserts a start timestamp
AssertAtExhaustion ==
    (pc = "check" /\ player.queue = <<>>) => agent._start_timestamp # None

\* SeekSecs.apply, line 77: the worker is about to apply a SeekSecs with a
\* start timestamp present, and asserts a player
AssertAtSeek ==
    (/\ pc \in {"idle", "poll"} /\ input_queue # <<>>
     /\ Head(input_queue).kind = "SeekSecs"
     /\ agent._track_index >= 0 /\ agent._start_timestamp # None)
        => player.open /\ pc = "poll"

\* _update_text_indices, line 178: the play loop has passed its test and is
\* about to scan the tokens, and asserts a start timestamp
AssertAtScan ==
    (pc = "scan" /\ agent._track_index >= 0 /\ IndexOk(agent)
     /\ _should_play(agent, is_playing))
        => agent._start_timestamp # None

\* C34: the three assertions of the playback worker hold wherever the
\* worker evaluates them
C34_AssertionsHold == AssertAtExhaustion /\ AssertAtSeek /\ AssertAtScan

\* the history was cleared under the open device and the device has
\* drained before the loop's test of the queue
C34_DrainedAfterClear ==
    /\ pc = "check" /\ AppliedClear
    /\ player.open /\ player.queue = <<>>
    /\ agent._start_timestamp = None


\* C35: every chunk the listener forwarded with index i is stored by the
\* playback worker in position i of its history
C35_ChunkStoredAtIndex ==
    (AppliedData /\ pc # "crashed") =>
        /\ last.input.index < Len(agent._data)
        /\ Samples_of(last.input.chunk.data)
               \subseteq Samples_of(agent._data[last.input.index + 1].data)

\* the same for the chunks that arrive when the history already has a
\* position for every text before theirs
ChunkStoredAtIndexWhenDense ==
    (AppliedData /\ pc # "crashed" /\ last.input.index <= Len(last.agent._data)) =>
        /\ last.input.index < Len(agent._data)
        /\ Samples_of(last.input.chunk.data)
               \subseteq Samples_of(agent._data[last.input.index + 1].data)

\* a chunk forwarded with index 1 became track 0
C35_StoredBelowIndex ==
    /\ AppliedData /\ last.input.index = 1
    /\ last.agent._data = <<>> /\ Len(agent._data) = 1
    /\ agent._data[1] = last.input.chunk


\* nothing is in flight: the three queues are empty, the synthesis worker
\* is between requests and the playback worker has not ended
Drained ==
    /\ kokoro_input_queue = <<>> /\ output_queue = <<>> /\ input_queue = <<>>
    /\ kokoro_pc \in {"wait", "get"}
    /\ pc \notin {"crashed", "done"}

\* C36: once the queues have drained, the playback worker's active track is
\* the item selected in the app
C36_ActiveTrackIsSelection == Drained => agent._track_index = index

\* every text has its track, in its position, and still the active track is
\* not the selected item: a chunk that opened a track arrived after the
\* selection had moved on
C36_LateChunkTookSelection ==
    /\ Drained /\ Len(agent._data) = Len(texts)
    /\ index >= 0 /\ agent._track_index >= 0
    /\ agent._track_index # index


\* the chunks produced after the caller's latest cancel() for feed calls
\* made before it (feed calls are numbered by their generation argument,
\* chunks by their sample)
EmittedAfterCancel ==
    {i \in 1..Len(Stream) : /\ Stream[i].audio.data[1] > cancelled.chunks
                            /\ Stream[i].generation < cancelled.requests}

\* C37: after a cancel(), at most one further chunk is produced for the
\* feed calls made before it, whether being generated or still queued, and
\* a request ended by the cancellation flag is never one that was fed after
\* the latest cancel()
C37_CancelStopsEarlierRequests ==
    /\ Cardinality(EmittedAfterCancel) <= 1
    /\ (ObservedCancel /\ ~kokoro_stop_event) =>
           last.request.input.generation < cancelled.requests

\* the second half alone: the cancellation flag never ends a request that
\* was fed after the latest cancel()
CancelSparesLaterRequests ==
    (ObservedCancel /\ ~kokoro_stop_event) =>
        last.request.input.generation < cancelled.requests

\* a request that was waiting in the queue at the cancel() produced two
\* chunks after it
C37_QueuedRequestGenerated ==
    \E i, j \in EmittedAfterCancel :
        i # j /\ Stream[i].generation = Stream[j].generation


\* an overwriting chunk replaced an existing track other than the selected
\* one
OverwroteOtherTrack ==
    /\ IsOverwrite
    /\ last.agent._track_index >= 0
    /\ last.input.index # last.agent._track_index

\* C38: an overwrite of an existing track other than the selected one leaves
\* the active index, the position, the start timestamp and the device as
\* they were
C38_OverwriteElsewhereKeepsPlayback ==
    OverwroteOtherTrack =>
        /\ agent._track_index = last.agent._track_index
        /\ agent._start_index = last.agent._start_index
        /\ agent._start_timestamp = last.agent._start_timestamp
        /\ player = last.player

\* what does stay: the active index and the selected track's audio
OverwriteElsewhereKeepsSelection ==
    OverwroteOtherTrack =>
        /\ agent._track_index = last.agent._track_index
        /\ _get_data(agent) = _get_data(last.agent)

\* the selected track was restarted from 0 in the middle of its playback
C38_SelectedTrackRestarted ==
    /\ OverwroteOtherTrack /\ WasStreaming
    /\ _current_index(last.agent, now) > 0
    /\ agent._start_index = 0 /\ agent._start_timestamp = now
    /\ player.queue = _get_data(agent)


\* the samples of the active track from position p to its end
AudioFrom(p) == SubSeq(_get_data(agent), p + 1, Len(_get_data(agent)))

\* C39: when the play loop is left (playback was disabled), the stored
\* position is the effective position at that moment, the timestamp is
\* dropped and the device closed; pause(), play() and toggle_pp() change
\* nothing of the worker's position; and when the device is opened again it
\* is opened at the stored position, with exactly the samples from that
\* position on queued and a fresh timestamp
C39_PauseFreezesPlayResumes ==
    /\ LeftPlayLoop =>
           /\ agent._start_index = last.position
           /\ agent._start_timestamp = None /\ ~player.open
    /\ last.op \in {"pause", "play", "toggle_pp"} =>
           agent = last.agent /\ player = last.player
    /\ last.op = "OpenDevice" =>
           /\ agent._start_index = last.position
           /\ agent._start_timestamp = now
           /\ player.queue = AudioFrom(last.position)

\* playback resumed in the middle of a track, at a position that only the
\* pause can have stored
C39_Witness ==
    /\ last.op = "OpenDevice"
    /\ last.position > 0 /\ last.position < Len(_get_data(agent))
    /\ player.queue = AudioFrom(last.position)


\* the (text_index_start, text_index_end) pairs of the tokens that exist
TokenRanges ==
    {<<ChunkOf(k).tokens[i].text_index_start, ChunkOf(k).tokens[i].text_index_end>> :
        k \in 1..MaxChunks, i \in {1}}

\* a yielded pair is the text range of one token
YieldedPairIsTokenRange ==
    (last.op = "yield" /\ last.value # NoYield) => last.value \in TokenRanges

\* C40: every pair yielded by get_text_indices is the text range of one
\* token, and while get_text_indices is inside its with block the worker is
\* not between its two stores
C40_HighlightReadsNotTorn ==
    /\ YieldedPairIsTokenRange
    /\ text_lock.read.stage \in {"start", "end"} =>
           text_lock.write.stage \notin {"start", "end"}

\* a token's range was yielded after another token's, by a reader that had
\* to read while the worker was at a with block of its own
C40_Witness ==
    /\ last.op = "yield"
    /\ last.value \in TokenRanges /\ last.previous \in TokenRanges
    /\ last.value # last.previous
    /\ pc = "write"

====
